---- MODULE Spec2Model ----
(***************************************************************************)
(* Model of the stable-swap pool program: the fee schedule (fees.rs) and   *)
(* the non-admin pool instructions (processor/swap.rs).                    *)
(*                                                                         *)
(* Integers: TLC evaluates 32-bit integers, so the arithmetic word is      *)
(* scaled down.  U64_MAX stands for u64::MAX; every checked operation of   *)
(* the program narrows against it.  The byte layout of Fees keeps the true *)
(* radix (256) and the true field width (8 bytes).  n_coins keeps its true *)
(* width (u8).                                                             *)
(***************************************************************************)
EXTENDS Integers, Sequences, FiniteSets, TLC

VARIABLES pure, swap_info, bal, supply, now, last

vars == <<pure, swap_info, bal, supply, now, last>>
poolVars == <<swap_info, bal, supply, now, last>>

----------------------------------------------------------------------------
(* Bounds and program constants *)

U64_MAX == 255
U8_MAX == 255
LEN == 64

\* Option<u64>: None is a value outside u64
None == -1

\* `let x = v;` followed by F: v is computed once and named in F
Only(S) == CHOOSE x \in S : TRUE
Let(v, F(_)) == Only({F(x) : x \in {v}})

----------------------------------------------------------------------------
(* math::mul_div / math::mul_div_imbalanced (math.rs is not part of the   *)
(* sources at hand; behaviour taken from the specification, section 4.1): *)
(* floor(a * b / c) in a wide intermediate, None on c = 0 or when the     *)
(* result does not fit the word.  Written as q*b + (r*b) div c with       *)
(* a = q*c + r, which is the same number.                                 *)

mul_div(a, b, c) ==
    IF c = 0 THEN None
    ELSE LET q == a \div c
             r == a % c
         IN  IF b > 0 /\ q > U64_MAX \div b THEN None
             ELSE LET res == q * b + ((r * b) \div c)
                  IN  IF res > U64_MAX THEN None ELSE res

mul_div_imbalanced(a, b, c) == mul_div(a, b, c)

\* u8::checked_sub / u8::checked_mul
checked_sub_u8(a, b) == IF a < b THEN None ELSE a - b
checked_mul_u8(a, b) == IF a * b > U8_MAX THEN None ELSE a * b

\* u64::checked_sub / u64::checked_add
checked_sub(a, b) == IF a < b THEN None ELSE a - b
checked_add(a, b) == IF a + b > U64_MAX THEN None ELSE a + b

----------------------------------------------------------------------------
(* fees.rs: struct Fees and its fee functions *)

FeeFields == <<"admin_trade_fee_numerator", "admin_trade_fee_denominator",
               "admin_withdraw_fee_numerator", "admin_withdraw_fee_denominator",
               "trade_fee_numerator", "trade_fee_denominator",
               "withdraw_fee_numerator", "withdraw_fee_denominator">>

Fees(atn, atd, awn, awd, tn, td, wn, wd) ==
    [admin_trade_fee_numerator |-> atn, admin_trade_fee_denominator |-> atd,
     admin_withdraw_fee_numerator |-> awn, admin_withdraw_fee_denominator |-> awd,
     trade_fee_numerator |-> tn, trade_fee_denominator |-> td,
     withdraw_fee_numerator |-> wn, withdraw_fee_denominator |-> wd]

ZeroFees == Fees(0, 0, 0, 0, 0, 0, 0, 0)

admin_trade_fee_swapped(f, fee_amount) ==
    mul_div_imbalanced(fee_amount, f.admin_trade_fee_denominator,
                       f.admin_trade_fee_numerator)

admin_trade_fee(f, fee_amount) ==
    mul_div_imbalanced(fee_amount, f.admin_trade_fee_numerator,
                       f.admin_trade_fee_denominator)

admin_withdraw_fee(f, fee_amount) ==
    mul_div_imbalanced(fee_amount, f.admin_withdraw_fee_numerator,
                       f.admin_withdraw_fee_denominator)

trade_fee_withdraw_pair(f, trade_amount) ==
    mul_div_imbalanced(trade_amount, f.withdraw_fee_numerator,
                       f.withdraw_fee_denominator)

trade_fee_wrapping(f, trade_amount) ==
    IF f.trade_fee_denominator = 0 THEN 0
    ELSE ((trade_amount * f.trade_fee_numerator) \div f.trade_fee_denominator)
             % (U64_MAX + 1)

trade_fee(f, trade_amount) ==
    mul_div_imbalanced(trade_amount, f.trade_fee_numerator,
                       f.trade_fee_denominator)

withdraw_fee(f, withdraw_amount) ==
    mul_div_imbalanced(withdraw_amount, f.withdraw_fee_numerator,
                       f.withdraw_fee_denominator)

normalized_trade_fee(f, n_coins, amount) ==
    LET s == checked_sub_u8(n_coins, 1)
        m == IF s = None THEN None ELSE checked_mul_u8(s, 4)
        adjusted_trade_fee_numerator ==
            IF m = None THEN None ELSE mul_div(f.trade_fee_numerator, n_coins, m)
    IN  IF adjusted_trade_fee_numerator = None THEN None
        ELSE mul_div(amount, adjusted_trade_fee_numerator, f.trade_fee_denominator)

----------------------------------------------------------------------------
(* fees.rs: impl Pack for Fees *)

RECURSIVE shr8(_, _)
shr8(x, k) == IF k = 0 THEN x ELSE shr8(x \div 256, k - 1)

\* u64::to_le_bytes: byte k (0-based) is bits [8k, 8k+8)
to_le_bytes(x) == [k \in 1..8 |-> shr8(x, k - 1) % 256]

to_be_bytes(x) == [k \in 1..8 |-> shr8(x, 8 - k) % 256]

RECURSIVE from_le_acc(_, _)
from_le_acc(b, k) == IF k = 0 THEN 0 ELSE b[9 - k] + 256 * from_le_acc(b, k - 1)

\* u64::from_le_bytes
from_le_bytes(b) == from_le_acc(b, 8)

\* array_refs![input, 8, 8, 8, 8, 8, 8, 8, 8]: the i-th 8-byte chunk (0-based)
chunk(bytes, i) == [k \in 1..8 |-> bytes[8 * i + k]]

pack_into_slice_be(f) ==
    [j \in 1..LEN |-> to_be_bytes(f[FeeFields[((j - 1) \div 8) + 1]])[((j - 1) % 8) + 1]]

pack_into_slice(f) ==
    [j \in 1..LEN |-> to_le_bytes(f[FeeFields[((j - 1) \div 8) + 1]])[((j - 1) % 8) + 1]]

unpack_from_slice(input) ==
    Fees(from_le_bytes(chunk(input, 0)), from_le_bytes(chunk(input, 1)),
         from_le_bytes(chunk(input, 2)), from_le_bytes(chunk(input, 3)),
         from_le_bytes(chunk(input, 4)), from_le_bytes(chunk(input, 5)),
         from_le_bytes(chunk(input, 6)), from_le_bytes(chunk(input, 7)))

----------------------------------------------------------------------------
(* curve::StableSwap (curve.rs is not part of the sources at hand).  The  *)
(* operators follow the specification, sections 4.2-4.4 and 4.6, with the *)
(* two-asset stable-swap Newton steps; results agree with the amounts     *)
(* asserted in tests::test_swap (5000/5000, amp 85, 100 in: reserve 4903, *)
(* 94 out, admin fee 3).                                                  *)

N_COINS == 2
MIN_AMP == 1
MAX_AMP == 3
ZERO_TS == 0
\* iteration cap of both Newton loops
ITERATIONS == 255

Abs(x) == IF x < 0 THEN -x ELSE x

\* StableSwap::new(initial_amp_factor, target_amp_factor, current_ts,
\*                 start_ramp_ts, stop_ramp_ts)
StableSwap(initial_amp, target_amp, current_ts, start_ts, stop_ts) ==
    [initial_amp_factor |-> initial_amp, target_amp_factor |-> target_amp,
     current_ts |-> current_ts, start_ramp_ts |-> start_ts,
     stop_ramp_ts |-> stop_ts]

\* the interpolation between the two coefficients, by amp_delta from initial
ramp_from_initial_up(inv, amp_delta) == inv.initial_amp_factor + amp_delta

ramp_from_initial(inv, amp_delta) ==
    IF inv.target_amp_factor >= inv.initial_amp_factor
    THEN inv.initial_amp_factor + amp_delta
    ELSE inv.initial_amp_factor - amp_delta

compute_amp_factor_checked_elapsed(inv) ==
    IF inv.current_ts >= inv.stop_ramp_ts THEN inv.target_amp_factor
    ELSE IF inv.current_ts < inv.start_ramp_ts THEN None
    ELSE Let(mul_div(Abs(inv.target_amp_factor - inv.initial_amp_factor),
                     inv.current_ts - inv.start_ramp_ts,
                     inv.stop_ramp_ts - inv.start_ramp_ts), LAMBDA amp_delta :
             IF amp_delta = None THEN None
             ELSE ramp_from_initial(inv, amp_delta))

\* section 4.2: target when the ramp is over, not configured or not begun,
\* else linear interpolation over the elapsed part of the window
compute_amp_factor(inv) ==
    IF \/ inv.current_ts >= inv.stop_ramp_ts
       \/ inv.start_ramp_ts = inv.stop_ramp_ts
       \/ inv.current_ts < inv.start_ramp_ts
    THEN inv.target_amp_factor
    ELSE Let(mul_div(Abs(inv.target_amp_factor - inv.initial_amp_factor),
                     inv.current_ts - inv.start_ramp_ts,
                     inv.stop_ramp_ts - inv.start_ramp_ts), LAMBDA amp_delta :
             IF amp_delta = None THEN None
             ELSE ramp_from_initial(inv, amp_delta))

\* d <- (ann * sum_x + d_prod * n) * d / ((ann - 1) * d + (n + 1) * d_prod)
compute_next_d(amp_factor, d_init, d_prod, sum_x) ==
    LET ann == amp_factor * N_COINS
        leverage == sum_x * ann
        numerator == d_init * (d_prod * N_COINS + leverage)
        denominator == d_init * (ann - 1) + d_prod * (N_COINS + 1)
    IN  IF ann < 1 \/ denominator = 0 THEN None ELSE numerator \div denominator

RECURSIVE d_loop(_, _, _, _, _, _)
d_loop(amp_factor, amount_a, amount_b, sum_x, d, left) ==
    IF left = 0 THEN d
    ELSE IF amount_a * N_COINS = 0 \/ amount_b * N_COINS = 0 THEN None
    ELSE Let((((d * d) \div (amount_a * N_COINS)) * d) \div (amount_b * N_COINS),
             LAMBDA d_prod :
         Let(compute_next_d(amp_factor, d, d_prod, sum_x), LAMBDA d_next :
             IF d_next = None THEN None
             ELSE IF Abs(d_next - d) <= 1 THEN d_next
             ELSE d_loop(amp_factor, amount_a, amount_b, sum_x, d_next, left - 1)))

\* section 4.3 computeInvariant: Newton iteration from d = amount_a + amount_b
compute_d(inv, amount_a, amount_b) ==
    Let(checked_add(amount_a, amount_b), LAMBDA sum_x :
    Let(compute_amp_factor(inv), LAMBDA amp_factor :
        IF sum_x = None THEN None
        ELSE IF sum_x = 0 THEN 0
        ELSE IF amp_factor = None THEN None
        ELSE d_loop(amp_factor, amount_a, amount_b, sum_x, sum_x, ITERATIONS)))

RECURSIVE y_loop(_, _, _, _, _)
y_loop(b, c, d, y, left) ==
    IF left = 0 THEN y
    ELSE Let(2 * y + b - d, LAMBDA y_denominator :
             IF y_denominator <= 0 THEN None
             ELSE Let((y * y + c) \div y_denominator, LAMBDA y_next :
                      IF Abs(y_next - y) <= 1 THEN y_next
                      ELSE y_loop(b, c, d, y_next, left - 1)))

\* section 4.3: the reserve y that keeps d with the other reserve at x
compute_y(inv, x, d) ==
    Let(compute_amp_factor(inv), LAMBDA amp_factor :
        IF amp_factor = None \/ amp_factor = 0 \/ x = 0 \/ d = None THEN None
        ELSE Let(amp_factor * N_COINS, LAMBDA ann :
             Let((((d * d) \div (x * N_COINS)) * d) \div (ann * N_COINS), LAMBDA c :
             Let((d \div ann) + x, LAMBDA b :
             Let(y_loop(b, c, d, d, ITERATIONS), LAMBDA y :
                 IF y = None \/ y > U64_MAX THEN None ELSE y)))))

NoResult == [ok |-> FALSE]

\* section 4.3, fee application on swap: SwapResult
swap_to(inv, source_amount, swap_source_amount, swap_destination_amount, fees) ==
    Let(checked_add(swap_source_amount, source_amount), LAMBDA new_source_amount :
    Let(compute_d(inv, swap_source_amount, swap_destination_amount), LAMBDA d :
    Let(IF new_source_amount = None THEN None
        ELSE compute_y(inv, new_source_amount, d), LAMBDA y :
    Let(IF y = None THEN None ELSE checked_sub(swap_destination_amount, y), LAMBDA dy :
    Let(IF dy = None THEN None ELSE trade_fee(fees, dy), LAMBDA dy_fee :
    Let(IF dy_fee = None THEN None ELSE admin_trade_fee(fees, dy_fee), LAMBDA admin_fee :
    Let(IF dy_fee = None THEN None ELSE checked_sub(dy, dy_fee), LAMBDA amount_swapped :
    Let(IF amount_swapped = None THEN None
        ELSE checked_sub(swap_destination_amount, amount_swapped), LAMBDA after_swap :
    Let(IF after_swap = None \/ admin_fee = None THEN None
        ELSE checked_sub(after_swap, admin_fee), LAMBDA new_destination_amount :
        IF new_destination_amount = None THEN NoResult
        ELSE [ok |-> TRUE, raw_amount_out |-> dy,
              new_source_amount |-> new_source_amount,
              new_destination_amount |-> new_destination_amount,
              amount_swapped |-> amount_swapped,
              admin_fee |-> admin_fee, fee |-> dy_fee])))))))))

\* section 4.4 quoteMintAmount: the fee-adjusted balance of one asset
fee_adjusted_balance(d_0, d_1, old_balance, new_balance, fees) ==
    Let(Abs(((d_1 * old_balance) \div d_0) - new_balance), LAMBDA difference :
    Let(IF difference > U64_MAX THEN None
        ELSE normalized_trade_fee(fees, N_COINS, difference), LAMBDA fee :
        IF fee = None THEN None ELSE checked_sub(new_balance, fee)))

compute_mint_amount_for_deposit(inv, deposit_amount_a, deposit_amount_b, swap_amount_a, swap_amount_b, pool_token_supply, fees) ==
    Let(compute_d(inv, swap_amount_a, swap_amount_b), LAMBDA d_0 :
    Let(checked_add(swap_amount_a, deposit_amount_a), LAMBDA new_a :
    Let(checked_add(swap_amount_b, deposit_amount_b), LAMBDA new_b :
    Let(IF new_a = None \/ new_b = None THEN None
        ELSE compute_d(inv, new_a, new_b), LAMBDA d_1 :
        IF d_0 = None \/ d_1 = None THEN None
        ELSE IF d_0 = 0 \/ d_1 <= d_0 THEN None
        ELSE
        Let(fee_adjusted_balance(d_0, d_1, swap_amount_a, new_a, fees), LAMBDA adj_a :
        Let(fee_adjusted_balance(d_0, d_1, swap_amount_b, new_b, fees), LAMBDA adj_b :
        Let(IF adj_a = None \/ adj_b = None THEN None
            ELSE compute_d(inv, adj_a, adj_b), LAMBDA d_2 :
            IF d_2 = None THEN None
            ELSE IF d_2 < d_0 THEN None
            ELSE mul_div(pool_token_supply, d_2 - d_0, d_0))))))))

\* section 4.6 quoteWithdrawSingle: (dy, dy_fee)
compute_withdraw_one(inv, pool_token_amount, pool_token_supply, swap_base_amount, swap_quote_amount, fees) ==
    Let(compute_d(inv, swap_base_amount, swap_quote_amount), LAMBDA d_0 :
    Let(IF d_0 = None THEN None
        ELSE mul_div(pool_token_amount, d_0, pool_token_supply), LAMBDA burnt :
    Let(IF burnt = None THEN None ELSE checked_sub(d_0, burnt), LAMBDA d_1 :
    Let(IF d_1 = None THEN None
        ELSE compute_y(inv, swap_quote_amount, d_1), LAMBDA new_y :
        IF new_y = None \/ d_0 = 0 THEN NoResult
        ELSE
        Let(checked_sub((swap_base_amount * d_1) \div d_0, new_y),
            LAMBDA expected_base_amount :
        Let(swap_quote_amount - ((swap_quote_amount * d_1) \div d_0),
            LAMBDA expected_quote_amount :
        Let(IF expected_base_amount = None THEN None
            ELSE normalized_trade_fee(fees, N_COINS, expected_base_amount),
            LAMBDA base_fee :
        Let(normalized_trade_fee(fees, N_COINS, expected_quote_amount),
            LAMBDA quote_fee :
        Let(IF base_fee = None THEN None
            ELSE checked_sub(swap_base_amount, base_fee), LAMBDA new_base_amount :
        Let(IF quote_fee = None THEN None
            ELSE checked_sub(swap_quote_amount, quote_fee), LAMBDA new_quote_amount :
        Let(IF new_quote_amount = None THEN None
            ELSE compute_y(inv, new_quote_amount, d_1), LAMBDA y_fee :
        Let(IF new_base_amount = None \/ y_fee = None THEN None
            ELSE checked_sub(new_base_amount, y_fee), LAMBDA dy :
        Let(checked_sub(swap_base_amount, new_y), LAMBDA dy_0 :
        Let(IF dy = None \/ dy_0 = None THEN None
            ELSE checked_sub(dy_0, dy), LAMBDA dy_fee :
            IF dy_fee = None THEN NoResult
            ELSE [ok |-> TRUE, dy |-> dy, dy_fee |-> dy_fee]))))))))))))))

\* section 4.6 quoteWithdraw, one asset: (amount, fee, admin_fee)
token_rate(reserve, supply_, fees, pool_tokens) ==
    Let(mul_div(pool_tokens, reserve, supply_), LAMBDA ideal :
    Let(IF ideal = None THEN None
        ELSE mul_div(ideal, N_COINS - 1, N_COINS), LAMBDA balanced :
    Let(IF balanced = None THEN None
        ELSE normalized_trade_fee(fees, N_COINS, balanced), LAMBDA trade_part :
    Let(IF trade_part = None THEN None
        ELSE checked_sub(ideal, trade_part), LAMBDA after_trade :
    Let(IF after_trade = None THEN None
        ELSE withdraw_fee(fees, after_trade), LAMBDA w_fee :
    Let(IF w_fee = None THEN None ELSE checked_sub(after_trade, w_fee), LAMBDA amount :
    Let(IF trade_part = None THEN None
        ELSE admin_trade_fee(fees, trade_part), LAMBDA admin_t :
    Let(IF w_fee = None THEN None ELSE admin_withdraw_fee(fees, w_fee), LAMBDA admin_w :
    Let(IF admin_t = None \/ admin_w = None THEN None
        ELSE checked_add(admin_t, admin_w), LAMBDA admin_fee :
        IF amount = None \/ admin_fee = None THEN NoResult
        ELSE [ok |-> TRUE, amount |-> amount, fee |-> trade_part + w_fee,
              admin_fee |-> admin_fee])))))))))

----------------------------------------------------------------------------
(* processor/token.rs wrappers over the token program (not part of the    *)
(* sources at hand): a transfer, mint or burn either applies in full or   *)
(* fails and applies nothing.                                             *)

TokenOk(b, s) == [ok |-> TRUE, bal |-> b, supply |-> s, err |-> "Ok"]
TokenErr(b, s, e) == [ok |-> FALSE, bal |-> b, supply |-> s, err |-> e]

transfer_crediting_only(b, s, source, destination, amount) ==
    IF b[source] < amount THEN TokenErr(b, s, "InsufficientFunds")
    ELSE IF b[destination] + amount > U64_MAX THEN TokenErr(b, s, "Overflow")
    ELSE TokenOk([b EXCEPT ![destination] = @ + amount], s)

\* token::transfer_as_user / token::transfer_as_swap
transfer(b, s, source, destination, amount) ==
    IF b[source] < amount THEN TokenErr(b, s, "InsufficientFunds")
    ELSE IF b[destination] + amount > U64_MAX THEN TokenErr(b, s, "Overflow")
    ELSE TokenOk([b EXCEPT ![source] = @ - amount, ![destination] = @ + amount], s)

\* token::mint_to
mint_to(b, s, destination, amount) ==
    IF s + amount > U64_MAX \/ b[destination] + amount > U64_MAX
    THEN TokenErr(b, s, "Overflow")
    ELSE TokenOk([b EXCEPT ![destination] = @ + amount], s + amount)

\* token::burn
burn(b, s, source, amount) ==
    IF b[source] < amount THEN TokenErr(b, s, "InsufficientFunds")
    ELSE TokenOk([b EXCEPT ![source] = @ - amount], s - amount)

----------------------------------------------------------------------------
(* processor/swap.rs: the instruction handlers.  A handler maps the       *)
(* accounts it is given to its result and the accounts as it leaves them; *)
(* token steps apply one after the other, a failing step returns at once. *)

Reserves == {"resA", "resB"}
AdminFeeAccounts == {"adminA", "adminB"}

\* the user's token account of the mint held by a reserve account
UserOf(reserve) == IF reserve = "resA" THEN "userA" ELSE "userB"
\* SwapTokenInfo.admin_fees of the token whose reserves account is given
AdminFeesOf(reserve) == IF reserve = "resA" THEN "adminA" ELSE "adminB"
\* the reserves account of the other token
OtherReserve(reserve) == IF reserve = "resA" THEN "resB" ELSE "resA"

Out(result, si, b, s, q) ==
    [result |-> result, swap_info |-> si, bal |-> b, supply |-> s, q |-> q]

\* checks::check_swap_token_destination_accounts
check_swap_token_destination_accounts(token_reserves, swap_destination, admin_destination) ==
    IF swap_destination # token_reserves THEN "IncorrectSwapAccount"
    ELSE IF admin_destination # AdminFeesOf(token_reserves) THEN "InvalidAdmin"
    ELSE "Ok"

\* `if token_swap.is_paused { return Err(SwapError::IsPaused.into()); }`
pause_check_skipped(token_swap) == FALSE

pause_check(token_swap) == token_swap.is_paused

\* `if amount < minimum { ... return Err(SwapError::ExceededSlippage.into()); }`
exceeds_slippage_inclusive(amount, minimum) == amount <= minimum

exceeds_slippage(amount, minimum) == amount < minimum

InvariantOf(si, t) ==
    StableSwap(si.initial_amp_factor, si.target_amp_factor, t,
               si.start_ramp_ts, si.stop_ramp_ts)

\* the LP amount of process_initialize taken as the sum of the reserves
initial_mint_amount_sum(b, amp_factor) == checked_add(b["resA"], b["resB"])

\* `invariant.compute_d(token_a.amount, token_b.amount)` with amp_factor ==
\* initial_amp_factor == target_amp_factor
initial_mint_amount(b, amp_factor) ==
    compute_d(StableSwap(amp_factor, amp_factor, ZERO_TS, ZERO_TS, ZERO_TS),
              b["resA"], b["resB"])

\* `let obj = SwapInfo { .. }` of process_initialize, written paused
SwapInfo_paused(amp_factor, fees) ==
    [is_initialized |-> TRUE, is_paused |-> TRUE,
     initial_amp_factor |-> amp_factor, target_amp_factor |-> amp_factor,
     start_ramp_ts |-> ZERO_TS, stop_ramp_ts |-> ZERO_TS, fees |-> fees]

\* `let obj = SwapInfo { .. }` of process_initialize
SwapInfo(amp_factor, fees) ==
    [is_initialized |-> TRUE, is_paused |-> FALSE,
     initial_amp_factor |-> amp_factor, target_amp_factor |-> amp_factor,
     start_ramp_ts |-> ZERO_TS, stop_ramp_ts |-> ZERO_TS, fees |-> fees]

\* process_initialize after the amp_factor range check, without the
\* is_initialized check
initialize_checked_again(si, b, s, amp_factor, fees) ==
    IF b["resB"] = 0 THEN Out("EmptySupply", si, b, s, NoResult)
    ELSE IF b["resA"] = 0 THEN Out("EmptySupply", si, b, s, NoResult)
    ELSE IF s # 0 THEN Out("InvalidSupply", si, b, s, NoResult)
    ELSE
    Let(initial_mint_amount(b, amp_factor), LAMBDA mint_amount_u256 :
        IF mint_amount_u256 = None THEN Out("CalculationFailure", si, b, s, NoResult)
        ELSE IF mint_amount_u256 > U64_MAX THEN Out("ConversionFailure", si, b, s, NoResult)
        ELSE
        Let(mint_to(b, s, "destLP", mint_amount_u256), LAMBDA m :
            IF ~m.ok THEN Out(m.err, si, b, s, NoResult)
            ELSE Out("Ok", SwapInfo(amp_factor, fees), m.bal, m.supply,
                     [ok |-> TRUE, mint_amount |-> mint_amount_u256])))

\* process_initialize after the amp_factor range check
initialize_checked(si, b, s, amp_factor, fees) ==
    IF si.is_initialized THEN Out("AlreadyInUse", si, b, s, NoResult)
    ELSE IF b["resB"] = 0 THEN Out("EmptySupply", si, b, s, NoResult)
    ELSE IF b["resA"] = 0 THEN Out("EmptySupply", si, b, s, NoResult)
    ELSE IF s # 0 THEN Out("InvalidSupply", si, b, s, NoResult)
    ELSE
    Let(initial_mint_amount(b, amp_factor), LAMBDA mint_amount_u256 :
        IF mint_amount_u256 = None THEN Out("CalculationFailure", si, b, s, NoResult)
        ELSE IF mint_amount_u256 > U64_MAX THEN Out("ConversionFailure", si, b, s, NoResult)
        ELSE
        Let(mint_to(b, s, "destLP", mint_amount_u256), LAMBDA m :
            IF ~m.ok THEN Out(m.err, si, b, s, NoResult)
            ELSE Out("Ok", SwapInfo(amp_factor, fees), m.bal, m.supply,
                     [ok |-> TRUE, mint_amount |-> mint_amount_u256])))

process_initialize_sound_fees(si, b, s, amp_factor, fees) ==
    IF ~(amp_factor \in MIN_AMP..MAX_AMP)
    THEN Out("InvalidInput", si, b, s, NoResult)
    ELSE IF \/ fees.admin_trade_fee_numerator > fees.admin_trade_fee_denominator
            \/ fees.admin_withdraw_fee_numerator > fees.admin_withdraw_fee_denominator
            \/ fees.trade_fee_numerator > fees.trade_fee_denominator
            \/ fees.withdraw_fee_numerator > fees.withdraw_fee_denominator
            \/ 0 \in {fees.admin_trade_fee_denominator,
                       fees.admin_withdraw_fee_denominator,
                       fees.trade_fee_denominator, fees.withdraw_fee_denominator}
         THEN Out("InvalidInput", si, b, s, NoResult)
    ELSE initialize_checked(si, b, s, amp_factor, fees)

process_initialize_any_amp(si, b, s, amp_factor, fees) ==
    initialize_checked(si, b, s, amp_factor, fees)

process_initialize_exclusive_max(si, b, s, amp_factor, fees) ==
    IF ~(amp_factor >= MIN_AMP /\ amp_factor < MAX_AMP)
    THEN Out("InvalidInput", si, b, s, NoResult)
    ELSE initialize_checked(si, b, s, amp_factor, fees)

process_initialize(si, b, s, amp_factor, fees) ==
    IF ~(amp_factor \in MIN_AMP..MAX_AMP)
    THEN Out("InvalidInput", si, b, s, NoResult)
    ELSE initialize_checked(si, b, s, amp_factor, fees)

\* the three token steps of process_swap, admin fee paid to the source
\* token's admin-fee account
swap_transfers_admin_of_source(b, s, result, amount_in, swap_source, swap_destination, admin_destination) ==
    Let(transfer(b, s, UserOf(swap_source), swap_source, amount_in), LAMBDA t1 :
        IF ~t1.ok THEN t1
        ELSE
        Let(transfer(t1.bal, s, swap_destination, UserOf(swap_destination),
                     result.amount_swapped), LAMBDA t2 :
            IF ~t2.ok THEN t2
            ELSE transfer(t2.bal, s, swap_destination, AdminFeesOf(swap_source),
                          result.admin_fee)))

\* the three token steps of process_swap: user to swap, swap to user,
\* swap to admin fees
swap_transfers(b, s, result, amount_in, swap_source, swap_destination, admin_destination) ==
    Let(transfer(b, s, UserOf(swap_source), swap_source, amount_in), LAMBDA t1 :
        IF ~t1.ok THEN t1
        ELSE
        Let(transfer(t1.bal, s, swap_destination, UserOf(swap_destination),
                     result.amount_swapped), LAMBDA t2 :
            IF ~t2.ok THEN t2
            ELSE transfer(t2.bal, s, swap_destination, admin_destination,
                          result.admin_fee)))

process_swap(si, b, s, t, amount_in, minimum_amount_out, swap_source, swap_destination, admin_destination) ==
    IF amount_in = 0 THEN Out("Ok", si, b, s, NoResult)
    ELSE IF swap_source = swap_destination THEN Out("InvalidInput", si, b, s, NoResult)
    ELSE IF ~si.is_initialized THEN Out("UninitializedAccount", si, b, s, NoResult)
    ELSE IF pause_check(si) THEN Out("IsPaused", si, b, s, NoResult)
    ELSE
    Let(check_swap_token_destination_accounts(OtherReserve(swap_source),
            swap_destination, admin_destination), LAMBDA chk :
        IF chk # "Ok" THEN Out(chk, si, b, s, NoResult)
        ELSE
        Let(swap_to(InvariantOf(si, t), amount_in, b[swap_source],
                    b[swap_destination], si.fees), LAMBDA result :
            IF ~result.ok THEN Out("CalculationFailure", si, b, s, NoResult)
            ELSE IF exceeds_slippage(result.amount_swapped, minimum_amount_out)
                 THEN Out("ExceededSlippage", si, b, s, result)
            ELSE
            Let(swap_transfers(b, s, result, amount_in, swap_source,
                               swap_destination, admin_destination), LAMBDA t3 :
                Out(t3.err, si, t3.bal, s, result))))

\* the three token steps of process_deposit, LP minted to the pool's initial
\* LP destination
deposit_transfers_to_destination(b, s, token_a_amount, token_b_amount, mint_amount) ==
    Let(transfer(b, s, "userA", "resA", token_a_amount), LAMBDA t1 :
        IF ~t1.ok THEN t1
        ELSE
        Let(transfer(t1.bal, s, "userB", "resB", token_b_amount), LAMBDA t2 :
            IF ~t2.ok THEN t2
            ELSE mint_to(t2.bal, s, "destLP", mint_amount)))

\* the three token steps of process_deposit: user to swap (A), user to swap
\* (B), mint lp to user
deposit_transfers(b, s, token_a_amount, token_b_amount, mint_amount) ==
    Let(transfer(b, s, "userA", "resA", token_a_amount), LAMBDA t1 :
        IF ~t1.ok THEN t1
        ELSE
        Let(transfer(t1.bal, s, "userB", "resB", token_b_amount), LAMBDA t2 :
            IF ~t2.ok THEN t2
            ELSE mint_to(t2.bal, s, "userLP", mint_amount)))

deposit_is_noop_with_either_zero(token_a_amount, token_b_amount) ==
    token_a_amount = 0 \/ token_b_amount = 0

\* `if token_a_amount == 0 && token_b_amount == 0 { return Ok(()); }`
deposit_is_noop(token_a_amount, token_b_amount) ==
    token_a_amount = 0 /\ token_b_amount = 0

process_deposit(si, b, s, t, token_a_amount, token_b_amount, min_mint_amount) ==
    IF deposit_is_noop(token_a_amount, token_b_amount)
    THEN Out("Ok", si, b, s, NoResult)
    ELSE IF ~si.is_initialized THEN Out("UninitializedAccount", si, b, s, NoResult)
    ELSE IF pause_check(si) THEN Out("IsPaused", si, b, s, NoResult)
    ELSE
    Let(compute_mint_amount_for_deposit(InvariantOf(si, t), token_a_amount,
            token_b_amount, b["resA"], b["resB"], s, si.fees), LAMBDA mint_amount :
    Let([ok |-> TRUE, mint_amount |-> mint_amount], LAMBDA q :
        IF mint_amount = None THEN Out("CalculationFailure", si, b, s, NoResult)
        ELSE IF exceeds_slippage(mint_amount, min_mint_amount)
             THEN Out("ExceededSlippage", si, b, s, q)
        ELSE
        Let(deposit_transfers(b, s, token_a_amount, token_b_amount, mint_amount),
            LAMBDA t3 : Out(t3.err, si, t3.bal, t3.supply, q))))

\* checks::check_can_withdraw_token
check_can_withdraw_token(rate, minimum_token_amount) ==
    IF ~rate.ok THEN "CalculationFailure"
    ELSE IF exceeds_slippage(rate.amount, minimum_token_amount) THEN "ExceededSlippage"
    ELSE "Ok"

handle_token_withdraw_without_admin_fee(b, s, amount, admin_fee, reserves, dest_token, admin_fee_dest) ==
    transfer(b, s, reserves, dest_token, amount)

handle_token_withdraw(b, s, amount, admin_fee, reserves, dest_token, admin_fee_dest) ==
    Let(transfer(b, s, reserves, dest_token, amount), LAMBDA t1 :
        IF ~t1.ok THEN t1
        ELSE transfer(t1.bal, s, reserves, admin_fee_dest, admin_fee))

\* process_withdraw from the converter on: the two quotes, the two
\* handle_token_withdraw and the burn
withdraw_tokens(si, b, s, pool_token_amount, minimum_token_a_amount, minimum_token_b_amount, source) ==
    Let(token_rate(b["resA"], s, si.fees, pool_token_amount), LAMBDA a :
    Let(check_can_withdraw_token(a, minimum_token_a_amount), LAMBDA ca :
        IF ca # "Ok" THEN Out(ca, si, b, s, [ok |-> a.ok, a |-> a, b |-> NoResult])
        ELSE
        Let(token_rate(b["resB"], s, si.fees, pool_token_amount), LAMBDA bq :
        Let(check_can_withdraw_token(bq, minimum_token_b_amount), LAMBDA cb :
        Let([ok |-> TRUE, a |-> a, b |-> bq], LAMBDA q :
            IF cb # "Ok" THEN Out(cb, si, b, s, [ok |-> bq.ok, a |-> a, b |-> bq])
            ELSE
            Let(handle_token_withdraw(b, s, a.amount, a.admin_fee,
                                      "resA", "userA", "adminA"), LAMBDA h1 :
                IF ~h1.ok THEN Out(h1.err, si, h1.bal, s, q)
                ELSE
                Let(handle_token_withdraw(h1.bal, s, bq.amount, bq.admin_fee,
                                          "resB", "userB", "adminB"), LAMBDA h2 :
                    IF ~h2.ok THEN Out(h2.err, si, h2.bal, s, q)
                    ELSE
                    Let(burn(h2.bal, s, source, pool_token_amount), LAMBDA h3 :
                        Out(h3.err, si, h3.bal, h3.supply, q)))))))))

process_withdraw_unless_paused(si, b, s, pool_token_amount, minimum_token_a_amount, minimum_token_b_amount, source) ==
    IF pool_token_amount = 0 THEN Out("Ok", si, b, s, NoResult)
    ELSE IF ~si.is_initialized THEN Out("UninitializedAccount", si, b, s, NoResult)
    ELSE IF pause_check(si) THEN Out("IsPaused", si, b, s, NoResult)
    ELSE IF s = 0 THEN Out("EmptyPool", si, b, s, NoResult)
    ELSE withdraw_tokens(si, b, s, pool_token_amount, minimum_token_a_amount,
                         minimum_token_b_amount, source)

process_withdraw(si, b, s, pool_token_amount, minimum_token_a_amount, minimum_token_b_amount, source) ==
    IF pool_token_amount = 0 THEN Out("Ok", si, b, s, NoResult)
    ELSE IF ~si.is_initialized THEN Out("UninitializedAccount", si, b, s, NoResult)
    ELSE IF s = 0 THEN Out("EmptyPool", si, b, s, NoResult)
    ELSE withdraw_tokens(si, b, s, pool_token_amount, minimum_token_a_amount,
                         minimum_token_b_amount, source)

withdraw_one_transfers_admin_of_quote(b, s, base_token, quote_token, admin_destination, token_amount, admin_fee, pool_token_amount) ==
    Let(transfer(b, s, base_token, UserOf(base_token), token_amount), LAMBDA t1 :
        IF ~t1.ok THEN t1
        ELSE
        Let(transfer(t1.bal, s, quote_token, admin_destination, admin_fee),
            LAMBDA t2 :
            IF ~t2.ok THEN t2
            ELSE burn(t2.bal, s, "userLP", pool_token_amount)))

\* the three token steps of process_withdraw_one: swap to user, swap to admin
\* fees, burn of the LP tokens
withdraw_one_transfers(b, s, base_token, quote_token, admin_destination, token_amount, admin_fee, pool_token_amount) ==
    Let(transfer(b, s, base_token, UserOf(base_token), token_amount), LAMBDA t1 :
        IF ~t1.ok THEN t1
        ELSE
        Let(transfer(t1.bal, s, base_token, admin_destination, admin_fee),
            LAMBDA t2 :
            IF ~t2.ok THEN t2
            ELSE burn(t2.bal, s, "userLP", pool_token_amount)))

process_withdraw_one(si, b, s, t, pool_token_amount, minimum_token_amount, base_token, quote_token, admin_destination) ==
    IF pool_token_amount = 0 THEN Out("Ok", si, b, s, NoResult)
    ELSE IF base_token = quote_token THEN Out("InvalidInput", si, b, s, NoResult)
    ELSE IF ~si.is_initialized THEN Out("UninitializedAccount", si, b, s, NoResult)
    ELSE IF pause_check(si) THEN Out("IsPaused", si, b, s, NoResult)
    ELSE IF quote_token # OtherReserve(base_token)
         THEN Out("IncorrectSwapAccount", si, b, s, NoResult)
    ELSE IF admin_destination # AdminFeesOf(base_token)
         THEN Out("InvalidAdmin", si, b, s, NoResult)
    ELSE
    Let(compute_withdraw_one(InvariantOf(si, t), pool_token_amount, s,
                             b[base_token], b[quote_token], si.fees), LAMBDA w :
        IF ~w.ok THEN Out("CalculationFailure", si, b, s, NoResult)
        ELSE
        Let(withdraw_fee(si.fees, w.dy), LAMBDA w_fee :
        Let(IF w_fee = None THEN None ELSE checked_sub(w.dy, w_fee), LAMBDA token_amount :
            IF token_amount = None THEN Out("CalculationFailure", si, b, s, NoResult)
            ELSE
            Let(admin_trade_fee(si.fees, w.dy_fee), LAMBDA admin_trade :
            Let(admin_withdraw_fee(si.fees, w_fee), LAMBDA admin_withdraw :
            Let(IF admin_trade = None \/ admin_withdraw = None THEN None
                ELSE checked_add(admin_trade, admin_withdraw), LAMBDA admin_fee :
            Let([ok |-> TRUE, dy |-> w.dy, dy_fee |-> w.dy_fee,
                 withdraw_fee |-> w_fee, token_amount |-> token_amount,
                 admin_fee |-> admin_fee], LAMBDA q :
                IF exceeds_slippage(token_amount, minimum_token_amount)
                THEN Out("ExceededSlippage", si, b, s, q)
                ELSE IF admin_fee = None THEN Out("CalculationFailure", si, b, s, q)
                ELSE
                Let(withdraw_one_transfers(b, s, base_token, quote_token,
                                           admin_destination, token_amount,
                                           admin_fee, pool_token_amount),
                    LAMBDA t3 : Out(t3.err, si, t3.bal, t3.supply, q)))))))))

----------------------------------------------------------------------------
(* State of the pure-function specifications.  pure.op names the last     *)
(* function applied; the pool variables stay at PoolIdle.                 *)

UninitSwapInfo ==
    [is_initialized |-> FALSE, is_paused |-> FALSE,
     initial_amp_factor |-> 0, target_amp_factor |-> 0,
     start_ramp_ts |-> 0, stop_ramp_ts |-> 0, fees |-> ZeroFees]

Accounts == {"resA", "resB", "adminA", "adminB", "userA", "userB", "userLP", "destLP"}

NoLast == [op |-> "none", result |-> "none", count |-> 0]

PoolIdle ==
    /\ swap_info = UninitSwapInfo
    /\ bal = [k \in Accounts |-> 0]
    /\ supply = 0
    /\ now = 0
    /\ last = NoLast

PureNew(f) ==
    [op |-> "new", fees |-> f, amount |-> 0, n_coins |-> 0, res |-> 0,
     bytes |-> <<>>, unpacked |-> ZeroFees]

\* field values drawn for the byte-layout check: one to four significant bytes
PackVals == {1, 258, 16909060}

PackFeesSet ==
    {Fees(a, b, c, d, e, f, g, h) :
        a \in PackVals, b \in PackVals, c \in PackVals, d \in PackVals,
        e \in {0, 2147483647}, f \in PackVals, g \in {255, 256}, h \in {65535}}

PackInit ==
    /\ PoolIdle
    /\ \E f \in PackFeesSet : pure = PureNew(f)

\* Pack::pack_into_slice(&fees, &mut packed[..])
PackFees ==
    /\ pure.op = "new"
    /\ pure' = [pure EXCEPT !.op = "pack", !.bytes = pack_into_slice(pure.fees)]
    /\ UNCHANGED poolVars

\* Fees::unpack_from_slice(&packed)
UnpackFees ==
    /\ pure.op = "pack"
    /\ pure' = [pure EXCEPT !.op = "unpack", !.unpacked = unpack_from_slice(pure.bytes)]
    /\ UNCHANGED poolVars

PackNext == PackFees \/ UnpackFees

SpecPack == PackInit /\ [][PackNext]_vars

----------------------------------------------------------------------------
(* Fee functions applied to drawn schedules and amounts *)

MaxFeePart == 3
FeeParts == 0..MaxFeePart

\* four numerator/denominator pairs; the admin pairs and the withdraw pair
\* are drawn from fewer values than the trade pair to keep the run small
\* the schedule of tests::fee_results
TestFees == Fees(1, 2, 3, 4, 5, 6, 7, 8)

FeeSchedules ==
    {Fees(atn, atd, 3, awd, tn, td, wn, 2) :
        atn \in {1, 2}, atd \in {0, 2}, awd \in {0, 4},
        tn \in FeeParts, td \in FeeParts, wn \in {1, 3}}
    \cup {TestFees}

FeeAmounts == {0, 1, 7, 83, 100, 200, U64_MAX}

NCoinsSet == {0, 1, 2, 3, 64, 65, U8_MAX}

FeesInit ==
    /\ PoolIdle
    /\ \E f \in FeeSchedules : pure = PureNew(f)

ApplyFee(name, x, r) ==
    /\ pure' = [pure EXCEPT !.op = name, !.amount = x, !.n_coins = 0, !.res = r]
    /\ UNCHANGED poolVars

CallTradeFee == \E x \in FeeAmounts : ApplyFee("trade_fee", x, trade_fee(pure.fees, x))

CallWithdrawFee ==
    \E x \in FeeAmounts : ApplyFee("withdraw_fee", x, withdraw_fee(pure.fees, x))

CallAdminTradeFee ==
    \E x \in FeeAmounts : ApplyFee("admin_trade_fee", x, admin_trade_fee(pure.fees, x))

CallAdminWithdrawFee ==
    \E x \in FeeAmounts :
        ApplyFee("admin_withdraw_fee", x, admin_withdraw_fee(pure.fees, x))

CallNormalizedTradeFee ==
    \E x \in FeeAmounts, n \in NCoinsSet :
        /\ pure' = [pure EXCEPT !.op = "normalized_trade_fee", !.amount = x,
                                !.n_coins = n,
                                !.res = normalized_trade_fee(pure.fees, n, x)]
        /\ UNCHANGED poolVars

FeesNext ==
    \/ CallTradeFee
    \/ CallWithdrawFee
    \/ CallAdminTradeFee
    \/ CallAdminWithdrawFee
    \/ CallNormalizedTradeFee

SpecFees == FeesInit /\ [][FeesNext]_vars

----------------------------------------------------------------------------
(* The curve functions applied to reserves, amplification and fees drawn  *)
(* from bounded sets.  pure holds the inputs, the function applied (op)   *)
(* and its result (res); for swap_to also the quote taken before it on    *)
(* the same reserves with a smaller amount (prev), and the quote of the   *)
(* swap back against the reserves the first swap leaves (back).           *)

MaxReserve == 12
MaxAmountIn == 5
MaxDeposit == 3

\* small reserves of every ratio, and two larger ones
CurveReserves == (1..MaxReserve) \cup {20, 53}

\* no fees, an ordinary schedule, a small trade fee
CurveFees == {Fees(0, 1, 0, 1, 0, 1, 0, 1),
              Fees(1, 2, 1, 2, 2, 4, 1, 4),
              Fees(1, 2, 1, 2, 1, 100, 1, 4)}

NoQuote == [amount |-> 0, q |-> NoResult]

CurveNew(a, b, amp, f) ==
    [op |-> "new", fees |-> f, amp_factor |-> amp, amount_a |-> a,
     amount_b |-> b, amount |-> 0, deposit |-> <<0, 0>>,
     pool_token_supply |-> 0, res |-> 0, prev |-> NoQuote, back |-> NoResult]

\* StableSwap::new of a pool that is not ramping
CurveInvariant ==
    StableSwap(pure.amp_factor, pure.amp_factor, ZERO_TS, ZERO_TS, ZERO_TS)

CurveInit ==
    /\ pure \in {CurveNew(a, b, amp, f) :
                    a \in CurveReserves, b \in CurveReserves,
                    amp \in MIN_AMP..MAX_AMP, f \in CurveFees}
    /\ PoolIdle

CurveApplied(op, res) ==
    [pure EXCEPT !.op = op, !.res = res, !.amount = 0, !.deposit = <<0, 0>>,
                 !.pool_token_supply = 0, !.prev = NoQuote, !.back = NoResult]

CallComputeD ==
    /\ pure.op = "new"
    /\ pure' = CurveApplied("compute_d",
                            compute_d(CurveInvariant, pure.amount_a, pure.amount_b))
    /\ UNCHANGED poolVars

\* a first quote, or a second one for a larger amount on the same reserves
CallSwapTo ==
    /\ pure.op = "new" \/ (pure.op = "swap_to" /\ pure.prev = NoQuote)
    /\ \E x \in (pure.amount + 1)..MaxAmountIn :
          pure' = [CurveApplied("swap_to",
                                swap_to(CurveInvariant, x, pure.amount_a,
                                        pure.amount_b, pure.fees))
                      EXCEPT !.amount = x,
                             !.prev = IF pure.op = "swap_to"
                                      THEN [amount |-> pure.amount, q |-> pure.res]
                                      ELSE NoQuote]
    /\ UNCHANGED poolVars

\* the amount swapped, swapped back against the reserves the swap leaves
CallSwapBack ==
    /\ pure.op = "swap_to"
    /\ pure.prev = NoQuote
    /\ pure.res.ok
    /\ pure.res.amount_swapped > 0
    /\ pure' = [pure EXCEPT
                   !.op = "swap_back",
                   !.prev = NoQuote,
                   !.back = swap_to(CurveInvariant, pure.res.amount_swapped,
                                    pure.res.new_destination_amount,
                                    pure.res.new_source_amount, pure.fees)]
    /\ UNCHANGED poolVars

\* the LP supply right after initialize (D0), and one that fees have left
\* behind the invariant
CurveSupplies ==
    {compute_d(CurveInvariant, pure.amount_a, pure.amount_b),
     compute_d(CurveInvariant, pure.amount_a, pure.amount_b) \div 2}

CallComputeMintAmountForDeposit ==
    /\ pure.op = "new"
    /\ \E da \in 0..MaxDeposit, db \in 0..MaxDeposit, lp \in CurveSupplies :
          /\ da + db > 0
          /\ pure' = [CurveApplied("compute_mint_amount_for_deposit",
                                   compute_mint_amount_for_deposit(
                                       CurveInvariant, da, db, pure.amount_a,
                                       pure.amount_b, lp, pure.fees))
                         EXCEPT !.deposit = <<da, db>>, !.pool_token_supply = lp]
    /\ UNCHANGED poolVars

\* the whole LP supply, or half of it, withdrawn into token A
CallComputeWithdrawOne ==
    /\ pure.op = "new"
    /\ \E lp \in CurveSupplies :
          \E pool_token_amount \in {lp, lp \div 2} :
              pure' = [CurveApplied("compute_withdraw_one",
                                    compute_withdraw_one(
                                        CurveInvariant, pool_token_amount, lp,
                                        pure.amount_a, pure.amount_b, pure.fees))
                          EXCEPT !.amount = pool_token_amount,
                                 !.pool_token_supply = lp]
    /\ UNCHANGED poolVars

CurveNext ==
    \/ CallComputeD
    \/ CallSwapTo
    \/ CallSwapBack
    \/ CallComputeMintAmountForDeposit
    \/ CallComputeWithdrawOne

SpecCurve == CurveInit /\ [][CurveNext]_vars

----------------------------------------------------------------------------
(* The amplification ramp applied to coefficients and timestamps drawn    *)
(* from bounded sets.  pure holds the fields of the StableSwap and the    *)
(* coefficient computed from them (res).                                  *)

MaxRampAmp == 7
MaxTs == 6

RampAmps == MIN_AMP..MaxRampAmp
Timestamps == ZERO_TS..MaxTs

RampNew(initial_amp, target_amp, current_ts, start_ts, stop_ts) ==
    [op |-> "new", inv |-> StableSwap(initial_amp, target_amp, current_ts,
                                     start_ts, stop_ts), res |-> 0]

\* <<start_ramp_ts, stop_ramp_ts>>: a ramp never stops before it starts
RampWindows == {w \in Timestamps \X Timestamps : w[1] <= w[2]}

RampInit ==
    /\ pure \in {RampNew(i, t, c, w[1], w[2]) :
                    i \in RampAmps, t \in RampAmps, c \in Timestamps,
                    w \in RampWindows}
    /\ PoolIdle

CallComputeAmpFactor ==
    /\ pure.op = "new"
    /\ pure' = [pure EXCEPT !.op = "compute_amp_factor",
                            !.res = compute_amp_factor(pure.inv)]
    /\ UNCHANGED poolVars

RampNext == CallComputeAmpFactor

SpecRamp == RampInit /\ [][RampNext]_vars

----------------------------------------------------------------------------
(* The two Newton iterations taken one step at a time.  pure holds the    *)
(* inputs of a call of compute_d, or of the compute_d and compute_y of a  *)
(* swap_to, the loop it is in (phase), the current and the previous       *)
(* iterate (cur, prev), the Newton steps the loop has taken (steps), how   *)
(* each loop ended (d_end, y_end) and the value returned (res).           *)

\* zero, small and unbalanced reserves, one that exhausts the cap with a
\* reserve of 1, one that a swap takes past the word
NewtonReserves == (0..MaxReserve) \cup {20, 33, 53, U64_MAX - 2}

NewtonNew(op, a, b, amp, x) ==
    [op |-> op, phase |-> "new", amp_factor |-> amp, amount_a |-> a,
     amount_b |-> b, amount |-> x, d |-> 0, cur |-> 0, prev |-> 0, steps |-> 0,
     d_end |-> "none", y_end |-> "none", res |-> 0]

NewtonInit ==
    /\ pure \in {NewtonNew("compute_d", a, b, amp, 0) :
                    a \in NewtonReserves, b \in NewtonReserves,
                    amp \in MIN_AMP..MAX_AMP}
                \cup
                {NewtonNew("swap_to", a, b, amp, x) :
                    a \in NewtonReserves, b \in NewtonReserves,
                    amp \in MIN_AMP..MAX_AMP, x \in 1..MaxAmountIn}
    /\ PoolIdle

\* a loop ends: "converged", "exhausted", or "failed" with no result
NewtonEnded(st, how, value) ==
    IF st.phase = "d"
    THEN [st EXCEPT !.d_end = how, !.d = value, !.res = value,
                    !.phase = IF st.op = "compute_d" \/ how = "failed"
                              THEN "done" ELSE "d_done"]
    ELSE [st EXCEPT !.y_end = how, !.res = value, !.phase = "done"]

\* compute_d up to its loop
d_start(st) ==
    Let(checked_add(st.amount_a, st.amount_b), LAMBDA sum_x :
        IF sum_x = None THEN NewtonEnded([st EXCEPT !.phase = "d"], "failed", None)
        ELSE IF sum_x = 0
             THEN NewtonEnded([st EXCEPT !.phase = "d"], "converged", 0)
        ELSE [st EXCEPT !.phase = "d", !.cur = sum_x, !.prev = sum_x, !.steps = 0])

d_step_fails_at_cap(st) ==
    IF st.steps = ITERATIONS THEN NewtonEnded(st, "failed", None)
    ELSE IF st.amount_a * N_COINS = 0 \/ st.amount_b * N_COINS = 0
         THEN NewtonEnded(st, "failed", None)
    ELSE
    Let((((st.cur * st.cur) \div (st.amount_a * N_COINS)) * st.cur)
            \div (st.amount_b * N_COINS), LAMBDA d_prod :
    Let(compute_next_d(st.amp_factor, st.cur, d_prod,
                       st.amount_a + st.amount_b), LAMBDA d_next :
    Let([st EXCEPT !.prev = st.cur, !.cur = d_next, !.steps = @ + 1], LAMBDA nx :
        IF d_next = None THEN NewtonEnded(st, "failed", None)
        ELSE IF Abs(d_next - st.cur) <= 1 THEN NewtonEnded(nx, "converged", d_next)
        ELSE nx)))

\* one turn of the loop of compute_d
d_step(st) ==
    IF st.steps = ITERATIONS THEN NewtonEnded(st, "exhausted", st.cur)
    ELSE IF st.amount_a * N_COINS = 0 \/ st.amount_b * N_COINS = 0
         THEN NewtonEnded(st, "failed", None)
    ELSE
    Let((((st.cur * st.cur) \div (st.amount_a * N_COINS)) * st.cur)
            \div (st.amount_b * N_COINS), LAMBDA d_prod :
    Let(compute_next_d(st.amp_factor, st.cur, d_prod,
                       st.amount_a + st.amount_b), LAMBDA d_next :
    Let([st EXCEPT !.prev = st.cur, !.cur = d_next, !.steps = @ + 1], LAMBDA nx :
        IF d_next = None THEN NewtonEnded(st, "failed", None)
        ELSE IF Abs(d_next - st.cur) <= 1 THEN NewtonEnded(nx, "converged", d_next)
        ELSE nx)))

\* the coefficients of the loop of compute_y, for x = the new source reserve
y_b(st) == (st.d \div (st.amp_factor * N_COINS)) + st.amount_a + st.amount
y_c(st) ==
    (((st.d * st.d) \div ((st.amount_a + st.amount) * N_COINS)) * st.d)
        \div (st.amp_factor * N_COINS * N_COINS)

\* swap_to after compute_d, and compute_y up to its loop
y_start(st) ==
    IF checked_add(st.amount_a, st.amount) = None
    THEN NewtonEnded([st EXCEPT !.phase = "y"], "failed", None)
    ELSE [st EXCEPT !.phase = "y", !.cur = st.d, !.prev = st.d, !.steps = 0]

\* one turn of the loop of compute_y
y_step(st) ==
    IF st.steps = ITERATIONS
    THEN NewtonEnded(st, IF st.cur > U64_MAX THEN "failed" ELSE "exhausted",
                     IF st.cur > U64_MAX THEN None ELSE st.cur)
    ELSE
    Let(2 * st.cur + y_b(st) - st.d, LAMBDA y_denominator :
        IF y_denominator <= 0 THEN NewtonEnded(st, "failed", None)
        ELSE
        Let((st.cur * st.cur + y_c(st)) \div y_denominator, LAMBDA y_next :
        Let([st EXCEPT !.prev = st.cur, !.cur = y_next, !.steps = @ + 1], LAMBDA nx :
            IF Abs(y_next - st.cur) > 1 THEN nx
            ELSE IF y_next > U64_MAX THEN NewtonEnded(nx, "failed", None)
            ELSE NewtonEnded(nx, "converged", y_next))))

ComputeDStart ==
    /\ pure.phase = "new"
    /\ pure' = d_start(pure)
    /\ UNCHANGED poolVars

ComputeDStep ==
    /\ pure.phase = "d"
    /\ pure' = d_step(pure)
    /\ UNCHANGED poolVars

ComputeYStart ==
    /\ pure.phase = "d_done"
    /\ pure' = y_start(pure)
    /\ UNCHANGED poolVars

ComputeYStep ==
    /\ pure.phase = "y"
    /\ pure' = y_step(pure)
    /\ UNCHANGED poolVars

NewtonNext ==
    \/ ComputeDStart
    \/ ComputeDStep
    \/ ComputeYStart
    \/ ComputeYStep

SpecNewton == NewtonInit /\ [][NewtonNext]_vars

\* a call that has begun runs on until it returns
SpecNewtonFair == SpecNewton /\ WF_vars(NewtonNext)

----------------------------------------------------------------------------
(* The pool: one swap account, its two reserves and admin-fee accounts,   *)
(* one user's token accounts, the bootstrapper's and the user's LP        *)
(* accounts.  `last` records the last instruction: its arguments, the     *)
(* accounts before it (pre), its result and its quote (q).                *)

MaxIx == 3

InitReserves == {<<20, 20>>, <<10, 30>>, <<0, 20>>, <<200, 100>>}
UserFunds == 10

AmpInputs == {MIN_AMP - 1, MIN_AMP, MAX_AMP, MAX_AMP + 1}

\* an ordinary schedule, one with a zero trade-fee denominator, one whose
\* admin trade ratio exceeds 1, one that passes the whole withdraw fee to the
\* admin, one whose withdraw ratio exceeds 1
PoolFees == {Fees(1, 2, 1, 2, 2, 4, 1, 4),
             Fees(1, 2, 1, 2, 1, 0, 1, 4),
             Fees(3, 2, 1, 2, 2, 4, 1, 4),
             Fees(1, 2, 1, 1, 2, 4, 1, 4),
             Fees(1, 2, 1, 2, 2, 4, 5, 4)}

SwapAmounts == {0, 5, 12}
Minimums == {0, 4, 100}
DepositAmounts == {<<0, 0>>, <<5, 5>>, <<5, 0>>, <<12, 5>>, <<5, 12>>}
PoolTokenAmounts == {0, 4, 10}
WithdrawMinimums == {<<0, 0>>, <<4, 0>>, <<0, 100>>}

\* the pool tokens minted by initialize on reserves of 20 and 20
WholeSupply == 40

\* the user withdraws from its own pool-token account; the holder of the
\* pool tokens minted by initialize withdraws all of them
WithdrawInputs ==
    {[pool_token_amount |-> x, minimum_token_a_amount |-> m[1],
      minimum_token_b_amount |-> m[2], source |-> "userLP"] :
        x \in PoolTokenAmounts, m \in WithdrawMinimums}
    \cup
    {[pool_token_amount |-> WholeSupply, minimum_token_a_amount |-> 0,
      minimum_token_b_amount |-> 0, source |-> "destLP"]}

\* <<source reserves, destination reserves, admin-fee destination>>: the two
\* directions, and account lists the handlers reject
GoodKeys == {<<"resA", "resB">>, <<"resB", "resA">>}
SwapInputs ==
    {[amount_in |-> x, minimum_amount_out |-> m, swap_source |-> k[1],
      swap_destination |-> k[2], admin_destination |-> AdminFeesOf(k[2])] :
        x \in SwapAmounts, m \in Minimums, k \in GoodKeys}
    \cup
    {[amount_in |-> x, minimum_amount_out |-> 0, swap_source |-> k[1],
      swap_destination |-> k[2], admin_destination |-> k[3]] :
        x \in {0, 5},
        k \in {<<"resA", "resB", "adminA">>, <<"resA", "resA", "adminA">>}}

WithdrawOneInputs ==
    {[pool_token_amount |-> x, minimum_token_amount |-> m, base_token |-> k[1],
      quote_token |-> k[2], admin_destination |-> AdminFeesOf(k[1])] :
        x \in PoolTokenAmounts, m \in Minimums, k \in GoodKeys}
    \cup
    {[pool_token_amount |-> x, minimum_token_amount |-> 0, base_token |-> k[1],
      quote_token |-> k[2], admin_destination |-> k[3]] :
        x \in {0, 4},
        k \in {<<"resA", "resB", "adminB">>, <<"resB", "resB", "adminB">>}}

PureIdle == PureNew(ZeroFees)

Init ==
    /\ pure = PureIdle
    /\ swap_info = UninitSwapInfo
    /\ \E r \in InitReserves :
          bal = [k \in Accounts |->
                    CASE k = "resA" -> r[1]
                      [] k = "resB" -> r[2]
                      [] k \in {"userA", "userB"} -> UserFunds
                      [] OTHER -> 0]
    /\ supply = 0
    /\ now = 0
    /\ last = NoLast

Pre == [bal |-> bal, supply |-> supply, swap_info |-> swap_info]

\* the record of an instruction just processed
Processed(op, args, out) ==
    [op |-> op, result |-> out.result, count |-> last.count + 1,
     args |-> args, pre |-> Pre, q |-> out.q]

Initialize ==
    /\ last.count < MaxIx
    /\ \E amp_factor \in AmpInputs, fees \in PoolFees :
          \E out \in {process_initialize(swap_info, bal, supply, amp_factor, fees)} :
              /\ swap_info' = out.swap_info
              /\ bal' = out.bal
              /\ supply' = out.supply
              /\ last' = Processed("initialize",
                                   [amp_factor |-> amp_factor, fees |-> fees], out)
    /\ UNCHANGED <<pure, now>>

Swap ==
    /\ last.count < MaxIx
    /\ \E i \in SwapInputs :
          \E out \in {process_swap(swap_info, bal, supply, now, i.amount_in,
                                  i.minimum_amount_out, i.swap_source,
                                  i.swap_destination, i.admin_destination)} :
              /\ swap_info' = out.swap_info
              /\ bal' = out.bal
              /\ supply' = out.supply
              /\ last' = Processed("swap", i, out)
    /\ UNCHANGED <<pure, now>>

Deposit ==
    /\ last.count < MaxIx
    /\ \E d \in DepositAmounts, min_mint_amount \in Minimums :
          \E out \in {process_deposit(swap_info, bal, supply, now, d[1], d[2],
                                     min_mint_amount)} :
              /\ swap_info' = out.swap_info
              /\ bal' = out.bal
              /\ supply' = out.supply
              /\ last' = Processed("deposit",
                                   [token_a_amount |-> d[1], token_b_amount |-> d[2],
                                    min_mint_amount |-> min_mint_amount], out)
    /\ UNCHANGED <<pure, now>>

Withdraw ==
    /\ last.count < MaxIx
    /\ \E i \in WithdrawInputs :
          \E out \in {process_withdraw(swap_info, bal, supply, i.pool_token_amount,
                                      i.minimum_token_a_amount,
                                      i.minimum_token_b_amount, i.source)} :
              /\ swap_info' = out.swap_info
              /\ bal' = out.bal
              /\ supply' = out.supply
              /\ last' = Processed("withdraw", i, out)
    /\ UNCHANGED <<pure, now>>

WithdrawOne ==
    /\ last.count < MaxIx
    /\ \E i \in WithdrawOneInputs :
          \E out \in {process_withdraw_one(swap_info, bal, supply, now,
                                          i.pool_token_amount,
                                          i.minimum_token_amount, i.base_token,
                                          i.quote_token, i.admin_destination)} :
              /\ swap_info' = out.swap_info
              /\ bal' = out.bal
              /\ supply' = out.supply
              /\ last' = Processed("withdraw_one", i, out)
    /\ UNCHANGED <<pure, now>>

\* the admin pause / unpause instructions (processor/admin.rs): they only
\* write SwapInfo.is_paused
Pause ==
    /\ swap_info.is_initialized
    /\ ~swap_info.is_paused
    /\ swap_info' = [swap_info EXCEPT !.is_paused = TRUE]
    /\ last' = [op |-> "pause", result |-> "Ok", count |-> last.count]
    /\ UNCHANGED <<pure, bal, supply, now>>

Unpause ==
    /\ swap_info.is_initialized
    /\ swap_info.is_paused
    /\ swap_info' = [swap_info EXCEPT !.is_paused = FALSE]
    /\ last' = [op |-> "unpause", result |-> "Ok", count |-> last.count]
    /\ UNCHANGED <<pure, bal, supply, now>>

\* the clock sysvar moves on between two instructions
Tick ==
    /\ last.count < MaxIx
    /\ now' = now + 1
    /\ last' = [op |-> "tick", result |-> "Ok", count |-> last.count + 1]
    /\ UNCHANGED <<pure, swap_info, bal, supply>>

Next ==
    \/ Initialize
    \/ Swap
    \/ Deposit
    \/ Withdraw
    \/ WithdrawOne
    \/ Pause
    \/ Unpause
    \/ Tick

Spec == Init /\ [][Next]_vars

----------------------------------------------------------------------------
(* Properties of the fee schedule *)

PackedField(i, k) == pure.bytes[8 * i + k + 1]

\* C1: pack_into_slice writes exactly 64 bytes, field i in bytes [8i, 8i+8)
\* in little-endian order, and unpack_from_slice of them returns the Fees
\* value that was packed.
C1_PackLayoutRoundTrip ==
    /\ pure.op \in {"pack", "unpack"} =>
          /\ Len(pure.bytes) = 64
          /\ \A i \in 0..7 :
                /\ \A k \in 0..7 : PackedField(i, k) \in 0..255
                /\ \A k \in 4..7 : PackedField(i, k) = 0
                /\ pure.fees[FeeFields[i + 1]] =
                      PackedField(i, 0) + 256 * (PackedField(i, 1)
                          + 256 * (PackedField(i, 2) + 256 * PackedField(i, 3)))
    /\ pure.op = "unpack" => pure.unpacked = pure.fees

C1_Witness ==
    /\ pure.op = "unpack"
    /\ pure.fees.admin_trade_fee_denominator = 16909060
    /\ pure.fees.trade_fee_denominator = 258
    /\ pure.bytes[9] = 4 /\ pure.bytes[12] = 1
    /\ pure.bytes[41] = 2 /\ pure.bytes[42] = 1

FeeOps == {"trade_fee", "withdraw_fee", "admin_trade_fee", "admin_withdraw_fee"}

OwnNumerator(op) ==
    CASE op = "trade_fee" -> pure.fees.trade_fee_numerator
      [] op = "withdraw_fee" -> pure.fees.withdraw_fee_numerator
      [] op = "admin_trade_fee" -> pure.fees.admin_trade_fee_numerator
      [] op = "admin_withdraw_fee" -> pure.fees.admin_withdraw_fee_numerator
      [] OTHER -> 0

OwnDenominator(op) ==
    CASE op = "trade_fee" -> pure.fees.trade_fee_denominator
      [] op = "withdraw_fee" -> pure.fees.withdraw_fee_denominator
      [] op = "admin_trade_fee" -> pure.fees.admin_trade_fee_denominator
      [] op = "admin_withdraw_fee" -> pure.fees.admin_withdraw_fee_denominator
      [] OTHER -> 0

Floor(x, n, d) == (x * n) \div d

\* C2: with a nonzero denominator and a result that fits, each of trade_fee,
\* withdraw_fee, admin_trade_fee, admin_withdraw_fee returns
\* floor(x * numerator / denominator) of its own pair (schedule 1/2, 3/4, 5/6,
\* 7/8: trade_fee(100) = 83 and admin_trade_fee(83) = 41).
C2_FeeIsFloorOfOwnPair ==
    /\ \A op \in FeeOps :
          (/\ pure.op = op
           /\ OwnDenominator(op) # 0
           /\ Floor(pure.amount, OwnNumerator(op), OwnDenominator(op)) <= U64_MAX)
          => pure.res = Floor(pure.amount, OwnNumerator(op), OwnDenominator(op))
    /\ (pure.fees = TestFees /\ pure.op = "trade_fee" /\ pure.amount = 100)
          => pure.res = 83
    /\ (pure.fees = TestFees /\ pure.op = "admin_trade_fee" /\ pure.amount = 83)
          => pure.res = 41

C2_Witness ==
    /\ pure.fees = TestFees
    /\ pure.op = "admin_trade_fee"
    /\ pure.amount = 83
    /\ pure.res = 41

\* the adjusted numerator of normalized_trade_fee as the documented formula
AdjExact(n) == (pure.fees.trade_fee_numerator * n) \div (4 * (n - 1))

\* C3: every fee function returns None when its denominator is zero or when
\* floor(amount * numerator / denominator) exceeds the word; a returned value
\* is the exact floor, never a truncated or wrapped one.
C3_FeeNoneOnZeroOrOverflow ==
    /\ \A op \in FeeOps :
          pure.op = op =>
             /\ OwnDenominator(op) = 0 => pure.res = None
             /\ (/\ OwnDenominator(op) # 0
                 /\ Floor(pure.amount, OwnNumerator(op), OwnDenominator(op)) > U64_MAX)
                => pure.res = None
             /\ pure.res # None =>
                   /\ pure.res \in 0..U64_MAX
                   /\ pure.res = Floor(pure.amount, OwnNumerator(op), OwnDenominator(op))
    /\ pure.op = "normalized_trade_fee" =>
          /\ pure.fees.trade_fee_denominator = 0 => pure.res = None
          /\ pure.n_coins < 2 => pure.res = None
          /\ (/\ pure.n_coins >= 2
              /\ pure.fees.trade_fee_denominator # 0
              /\ Floor(pure.amount, AdjExact(pure.n_coins),
                       pure.fees.trade_fee_denominator) > U64_MAX)
             => pure.res = None
          /\ pure.res # None =>
                /\ pure.res \in 0..U64_MAX
                /\ pure.res = Floor(pure.amount, AdjExact(pure.n_coins),
                                    pure.fees.trade_fee_denominator)

C3_Witness ==
    /\ pure.op = "trade_fee"
    /\ pure.fees.trade_fee_denominator # 0
    /\ Floor(pure.amount, pure.fees.trade_fee_numerator,
             pure.fees.trade_fee_denominator) > U64_MAX
    /\ pure.res = None

\* C4 (as claimed): for every n_coins >= 2 of the 8-bit range, a nonzero
\* trade-fee denominator and a result that fits, normalized_trade_fee returns
\* floor(amount * adj / trade_fee_denominator),
\* adj = floor(trade_fee_numerator * n_coins / (4 * (n_coins - 1))).
C4_NormalizedGeneralOnNCoins ==
    (/\ pure.op = "normalized_trade_fee"
     /\ pure.n_coins >= 2
     /\ pure.fees.trade_fee_denominator # 0
     /\ Floor(pure.amount, AdjExact(pure.n_coins),
              pure.fees.trade_fee_denominator) <= U64_MAX)
    => pure.res = Floor(pure.amount, AdjExact(pure.n_coins),
                        pure.fees.trade_fee_denominator)

----------------------------------------------------------------------------
(* Properties of the instruction handlers *)

Handlers == {"swap", "deposit", "withdraw", "withdraw_one"}

\* the last instruction left every account and the pool record as they were
Untouched ==
    /\ bal = last.pre.bal
    /\ supply = last.pre.supply
    /\ swap_info = last.pre.swap_info

SwapQuoted == last.op = "swap" /\ last.q.ok

\* C5 (as claimed): in every successful swap quote tradeFee =
\* trade_fee(rawAmountOut), amountSwapped = rawAmountOut - tradeFee, adminFee =
\* admin_trade_fee(tradeFee), and tradeFee - adminFee is never negative.
C5_SwapFeeSplit ==
    SwapQuoted =>
       LET f == last.pre.swap_info.fees
           q == last.q
       IN  /\ q.fee = Floor(q.raw_amount_out, f.trade_fee_numerator,
                            f.trade_fee_denominator)
           /\ q.amount_swapped = q.raw_amount_out - q.fee
           /\ q.admin_fee = Floor(q.fee, f.admin_trade_fee_numerator,
                                  f.admin_trade_fee_denominator)
           /\ q.amount_swapped + q.fee = q.raw_amount_out
           /\ q.fee - q.admin_fee >= 0

\* C5 (amended): the same equalities; tradeFee - adminFee is non-negative
\* when the admin trade numerator does not exceed its denominator.
C5_SwapFeeSplitAmended ==
    SwapQuoted =>
       LET f == last.pre.swap_info.fees
           q == last.q
       IN  /\ q.fee = Floor(q.raw_amount_out, f.trade_fee_numerator,
                            f.trade_fee_denominator)
           /\ q.amount_swapped = q.raw_amount_out - q.fee
           /\ q.admin_fee = Floor(q.fee, f.admin_trade_fee_numerator,
                                  f.admin_trade_fee_denominator)
           /\ q.amount_swapped + q.fee = q.raw_amount_out
           /\ f.admin_trade_fee_numerator <= f.admin_trade_fee_denominator
                 => q.fee - q.admin_fee >= 0

C5_Witness ==
    /\ SwapQuoted
    /\ last.result = "Ok"
    /\ last.q.fee > 0
    /\ last.q.admin_fee > 0
    /\ last.q.admin_fee < last.q.fee

\* C6: after a successful swap of amount_in from X to Y the X reserve is
\* old + amount_in, the Y reserve is old - amount_swapped - admin_fee, the
\* user's Y account gained amount_swapped, Y's admin-fee account (not X's)
\* gained admin_fee, and the reserves equal the quote's new amounts.
C6_SwapMovesExactAmounts ==
    (SwapQuoted /\ last.result = "Ok") =>
       LET x == last.args.swap_source
           y == last.args.swap_destination
           q == last.q
           old == last.pre.bal
       IN  /\ bal[x] = old[x] + last.args.amount_in
           /\ bal[y] = old[y] - q.amount_swapped - q.admin_fee
           /\ bal[UserOf(y)] = old[UserOf(y)] + q.amount_swapped
           /\ bal[UserOf(x)] = old[UserOf(x)] - last.args.amount_in
           /\ bal[AdminFeesOf(y)] = old[AdminFeesOf(y)] + q.admin_fee
           /\ bal[AdminFeesOf(x)] = old[AdminFeesOf(x)]
           /\ bal[x] = q.new_source_amount
           /\ bal[y] = q.new_destination_amount

C6_Witness ==
    /\ SwapQuoted
    /\ last.result = "Ok"
    /\ last.args.swap_source = "resB"
    /\ last.q.admin_fee > 0
    /\ bal["adminA"] = last.pre.bal["adminA"] + last.q.admin_fee

\* the amounts the user would receive, as far as the handler computed them,
\* each paired with its minimum
QuotedAmounts ==
    CASE last.op = "swap" ->
            IF last.q.ok
            THEN {<<last.q.amount_swapped, last.args.minimum_amount_out>>} ELSE {}
      [] last.op = "deposit" ->
            IF last.q.ok
            THEN {<<last.q.mint_amount, last.args.min_mint_amount>>} ELSE {}
      [] last.op = "withdraw" ->
            IF "a" \in DOMAIN last.q
            THEN (IF last.q.a.ok
                  THEN {<<last.q.a.amount, last.args.minimum_token_a_amount>>} ELSE {})
                 \cup
                 (IF last.q.b.ok
                  THEN {<<last.q.b.amount, last.args.minimum_token_b_amount>>} ELSE {})
            ELSE {}
      [] last.op = "withdraw_one" ->
            IF last.q.ok
            THEN {<<last.q.token_amount, last.args.minimum_token_amount>>} ELSE {}
      [] OTHER -> {}

\* C7: in swap, deposit, withdraw and withdraw_one a computed amount strictly
\* below the caller's minimum makes the instruction fail with
\* ExceededSlippage and move no token; amounts at or above their minimums
\* are not rejected for slippage.
C7_SlippageRejectsBelowMinimumOnly ==
    last.op \in Handlers =>
       /\ (\E p \in QuotedAmounts : p[1] < p[2])
             => (last.result = "ExceededSlippage" /\ Untouched)
       /\ (QuotedAmounts # {} /\ \A p \in QuotedAmounts : p[1] >= p[2])
             => last.result # "ExceededSlippage"
       /\ last.result = "ExceededSlippage" => \E p \in QuotedAmounts : p[1] < p[2]

C7_Witness ==
    /\ last.op = "deposit"
    /\ last.q.ok
    /\ last.q.mint_amount > 0
    /\ last.q.mint_amount < last.args.min_mint_amount
    /\ last.result = "ExceededSlippage"

NonzeroAmount ==
    CASE last.op = "swap" -> last.args.amount_in # 0
      [] last.op = "deposit" ->
            last.args.token_a_amount # 0 \/ last.args.token_b_amount # 0
      [] last.op = "withdraw_one" -> last.args.pool_token_amount # 0
      [] OTHER -> FALSE

\* account lists the handler rejects before it reads the pool record
SameAccountTwice ==
    \/ last.op = "swap" /\ last.args.swap_source = last.args.swap_destination
    \/ last.op = "withdraw_one" /\ last.args.base_token = last.args.quote_token

C10_InitializeAmpRange ==
    last.op = "initialize" =>
       /\ (last.args.amp_factor < MIN_AMP \/ last.args.amp_factor > MAX_AMP)
             => (/\ last.result = "InvalidInput"
                 /\ Untouched
                 /\ swap_info.is_initialized = last.pre.swap_info.is_initialized)
       /\ (MIN_AMP <= last.args.amp_factor /\ last.args.amp_factor <= MAX_AMP)
             => last.result # "InvalidInput"
       /\ last.result = "Ok"
             => (/\ MIN_AMP <= last.args.amp_factor
                 /\ last.args.amp_factor <= MAX_AMP
                 /\ swap_info.is_initialized)

C10_Witness ==
    /\ last.op = "initialize"
    /\ last.args.amp_factor = MAX_AMP + 1
    /\ last.result = "InvalidInput"
    /\ ~swap_info.is_initialized
    /\ supply = 0

----------------------------------------------------------------------------
(* Properties of the pool's life cycle *)

LaterInitialize == last.op = "initialize" /\ last.pre.swap_info.is_initialized

\* C11 (as claimed): after one successful initialize every later initialize
\* fails with AlreadyInUse, mints nothing and leaves the pool record
\* unchanged; is_initialized, once true, stays true.
C11_InitializeOnce ==
    /\ [](LaterInitialize => (last.result = "AlreadyInUse" /\ Untouched))
    /\ [][swap_info.is_initialized => swap_info'.is_initialized]_vars

\* C11 (amended): a later initialize whose amp_factor is inside
\* MIN_AMP..MAX_AMP fails with AlreadyInUse, one whose amp_factor is outside
\* fails with InvalidInput (the range check comes first); either way it mints
\* nothing and leaves the pool record unchanged; is_initialized stays true.
C11_InitializeOnceAmended ==
    /\ [](LaterInitialize =>
             /\ last.args.amp_factor \in MIN_AMP..MAX_AMP
                   => last.result = "AlreadyInUse"
             /\ last.args.amp_factor \notin MIN_AMP..MAX_AMP
                   => last.result = "InvalidInput"
             /\ Untouched)
    /\ [][swap_info.is_initialized => swap_info'.is_initialized]_vars

C11_Witness ==
    /\ LaterInitialize
    /\ last.args.amp_factor = MIN_AMP
    /\ last.result = "AlreadyInUse"
    /\ supply = last.pre.supply
    /\ supply > 0

InitializeOk == last.op = "initialize" /\ last.result = "Ok"

\* C12: right after a successful initialize with amp_factor a and fees f the
\* pool record has initial_amp_factor = target_amp_factor = a,
\* start_ramp_ts = stop_ramp_ts = ZERO_TS, is_paused = FALSE,
\* is_initialized = TRUE and fees = f, and both reserves are as before.
C12_InitializedState ==
    InitializeOk =>
       /\ swap_info.initial_amp_factor = last.args.amp_factor
       /\ swap_info.target_amp_factor = last.args.amp_factor
       /\ swap_info.start_ramp_ts = ZERO_TS
       /\ swap_info.stop_ramp_ts = ZERO_TS
       /\ swap_info.is_paused = FALSE
       /\ swap_info.is_initialized = TRUE
       /\ swap_info.fees = last.args.fees
       /\ DOMAIN swap_info = {"initial_amp_factor", "target_amp_factor",
                              "start_ramp_ts", "stop_ramp_ts", "is_paused",
                              "is_initialized", "fees"}
       /\ bal["resA"] = last.pre.bal["resA"]
       /\ bal["resB"] = last.pre.bal["resB"]

C12_Witness ==
    /\ InitializeOk
    /\ last.args.amp_factor = MAX_AMP
    /\ last.args.fees = Fees(3, 2, 1, 2, 2, 4, 1, 4)
    /\ ~last.pre.swap_info.is_initialized
    /\ swap_info.initial_amp_factor = MAX_AMP
    /\ bal["resA"] = 10 /\ bal["resB"] = 30

\* D0 = computeInvariant(reserveA, reserveB, amp_factor) of the reserves the
\* last instruction found
D0 ==
    compute_d(StableSwap(last.args.amp_factor, last.args.amp_factor,
                         ZERO_TS, ZERO_TS, ZERO_TS),
              last.pre.bal["resA"], last.pre.bal["resB"])

\* C13: a successful initialize found both reserves nonzero and an LP supply
\* of zero and minted exactly D0 to the destination, so that LP supply =
\* destination LP balance = D0; when D0 does not fit the word, initialize
\* fails and mints nothing.
C13_InitializeMintsD0 ==
    /\ InitializeOk =>
          /\ last.pre.bal["resA"] > 0
          /\ last.pre.bal["resB"] > 0
          /\ last.pre.supply = 0
          /\ D0 \in 0..U64_MAX
          /\ last.q.mint_amount = D0
          /\ supply = D0
          /\ bal["destLP"] = D0
          /\ \A k \in Accounts \ {"destLP"} : bal[k] = last.pre.bal[k]
    /\ (/\ last.op = "initialize"
        /\ last.args.amp_factor \in MIN_AMP..MAX_AMP
        /\ D0 \notin 0..U64_MAX)
       => (last.result # "Ok" /\ Untouched)

C13_Witness ==
    /\ InitializeOk
    /\ last.pre.bal["resA"] = 10 /\ last.pre.bal["resB"] = 30
    /\ supply = D0
    /\ supply > 2 * 17 /\ supply < 40
    /\ bal["destLP"] = supply

\* an initialize whose D0 does not fit the word
C13_WitnessTooLarge ==
    /\ last.op = "initialize"
    /\ last.args.amp_factor \in MIN_AMP..MAX_AMP
    /\ last.pre.bal["resA"] > 0 /\ last.pre.bal["resB"] > 0
    /\ D0 \notin 0..U64_MAX
    /\ last.result = "CalculationFailure"
    /\ supply = 0

----------------------------------------------------------------------------
(* Properties of deposit and withdrawal *)

LPAccounts == {"userLP", "destLP"}

DepositQuoted == last.op = "deposit" /\ last.q.ok

\* C14: after a successful deposit of (token_a_amount, token_b_amount)
\* reserve A is old + token_a_amount, reserve B is old + token_b_amount, the
\* depositor's source accounts decreased by those amounts, LP supply and the
\* depositor's LP balance both increased by the quoted mint_amount, which is
\* at least min_mint_amount; LP supply always equals the sum of LP balances.
C14_DepositMovesExactAmounts ==
    /\ (DepositQuoted /\ last.result = "Ok") =>
          LET old == last.pre.bal
              a == last.args.token_a_amount
              b == last.args.token_b_amount
          IN  /\ bal["resA"] = old["resA"] + a
              /\ bal["resB"] = old["resB"] + b
              /\ bal["userA"] = old["userA"] - a
              /\ bal["userB"] = old["userB"] - b
              /\ supply = last.pre.supply + last.q.mint_amount
              /\ bal["userLP"] = old["userLP"] + last.q.mint_amount
              /\ last.q.mint_amount >= last.args.min_mint_amount
              /\ \A k \in {"adminA", "adminB", "destLP"} : bal[k] = old[k]
              /\ swap_info = last.pre.swap_info
    /\ (last.op = "deposit" /\ last.result = "Ok" /\ ~last.q.ok) =>
          (last.args.token_a_amount = 0 /\ last.args.token_b_amount = 0 /\ Untouched)
    /\ supply = bal["userLP"] + bal["destLP"]

C14_Witness ==
    /\ DepositQuoted
    /\ last.result = "Ok"
    /\ last.args.token_a_amount = 5 /\ last.args.token_b_amount = 0
    /\ last.q.mint_amount > 0
    /\ last.args.min_mint_amount = last.q.mint_amount
    /\ bal["userLP"] = last.q.mint_amount
    /\ bal["destLP"] > 0

WithdrawQuoted == last.op = "withdraw" /\ last.result = "Ok" /\ last.q.ok

\* C16: a successful proportional withdraw moves, for each token, the quoted
\* amount from the reserve to the user and the quoted admin fee from the
\* reserve to that token's admin-fee account, and burns pool_token_amount
\* from the user's LP account and the supply.
C16_WithdrawMovesExactAmounts ==
    WithdrawQuoted
    => /\ last.q.a = token_rate(last.pre.bal["resA"], last.pre.supply,
                                last.pre.swap_info.fees, last.args.pool_token_amount)
       /\ last.q.b = token_rate(last.pre.bal["resB"], last.pre.supply,
                                last.pre.swap_info.fees, last.args.pool_token_amount)
       /\ bal["resA"] = last.pre.bal["resA"] - (last.q.a.amount + last.q.a.admin_fee)
       /\ bal["userA"] = last.pre.bal["userA"] + last.q.a.amount
       /\ bal["adminA"] = last.pre.bal["adminA"] + last.q.a.admin_fee
       /\ bal["resB"] = last.pre.bal["resB"] - (last.q.b.amount + last.q.b.admin_fee)
       /\ bal["userB"] = last.pre.bal["userB"] + last.q.b.amount
       /\ bal["adminB"] = last.pre.bal["adminB"] + last.q.b.admin_fee
       /\ supply = last.pre.supply - last.args.pool_token_amount
       /\ bal[last.args.source] =
             last.pre.bal[last.args.source] - last.args.pool_token_amount
       /\ \A k \in LPAccounts \ {last.args.source} : bal[k] = last.pre.bal[k]

C16_Witness ==
    /\ WithdrawQuoted
    /\ last.q.a.amount > 0
    /\ last.q.b.amount > 0
    /\ last.q.a.admin_fee > 0
    /\ last.q.b.admin_fee > 0

WithdrawOneQuoted == last.op = "withdraw_one" /\ last.result = "Ok" /\ last.q.ok

\* the quote (dy, dy_fee) of the withdraw_one just processed, from the
\* accounts as they were before it
WithdrawOneQuote ==
    compute_withdraw_one(InvariantOf(last.pre.swap_info, now),
                         last.args.pool_token_amount, last.pre.supply,
                         last.pre.bal[last.args.base_token],
                         last.pre.bal[last.args.quote_token],
                         last.pre.swap_info.fees)

\* a withdraw_one that passes every check before the quote, and whose
\* withdraw fee on the quoted dy exceeds dy
WithdrawFeeAboveDy ==
    /\ last.op = "withdraw_one"
    /\ last.args.pool_token_amount > 0
    /\ last.pre.swap_info.is_initialized
    /\ ~last.pre.swap_info.is_paused
    /\ last.args.quote_token = OtherReserve(last.args.base_token)
    /\ last.args.admin_destination = AdminFeesOf(last.args.base_token)
    /\ WithdrawOneQuote.ok
    /\ withdraw_fee(last.pre.swap_info.fees, WithdrawOneQuote.dy) # None
    /\ withdraw_fee(last.pre.swap_info.fees, WithdrawOneQuote.dy) > WithdrawOneQuote.dy

\* C17: a successful withdraw_one with quote (dy, dy_fee) charges
\* withdraw_fee(dy), pays dy - withdraw_fee to the user and
\* admin_trade_fee(dy_fee) + admin_withdraw_fee(withdraw_fee) to the base
\* token's admin-fee account, both out of the base reserve, leaves the quote
\* reserve alone and burns pool_token_amount; a withdraw fee above dy fails
\* the instruction with CalculationFailure.
C17_WithdrawOneMovesExactAmounts ==
    /\ WithdrawOneQuoted
       => /\ last.q.dy = WithdrawOneQuote.dy
          /\ last.q.dy_fee = WithdrawOneQuote.dy_fee
          /\ last.q.withdraw_fee = withdraw_fee(last.pre.swap_info.fees, last.q.dy)
          /\ last.q.token_amount = last.q.dy - last.q.withdraw_fee
          /\ last.q.admin_fee =
                 admin_trade_fee(last.pre.swap_info.fees, last.q.dy_fee)
                 + admin_withdraw_fee(last.pre.swap_info.fees, last.q.withdraw_fee)
          /\ bal[UserOf(last.args.base_token)] =
                 last.pre.bal[UserOf(last.args.base_token)] + last.q.token_amount
          /\ bal[AdminFeesOf(last.args.base_token)] =
                 last.pre.bal[AdminFeesOf(last.args.base_token)] + last.q.admin_fee
          /\ bal[last.args.base_token] =
                 last.pre.bal[last.args.base_token]
                 - (last.q.token_amount + last.q.admin_fee)
          /\ bal[last.args.quote_token] = last.pre.bal[last.args.quote_token]
          /\ bal[AdminFeesOf(last.args.quote_token)] =
                 last.pre.bal[AdminFeesOf(last.args.quote_token)]
          /\ supply = last.pre.supply - last.args.pool_token_amount
          /\ bal["userLP"] = last.pre.bal["userLP"] - last.args.pool_token_amount
    /\ WithdrawFeeAboveDy => (last.result = "CalculationFailure" /\ Untouched)

C17_Witness ==
    /\ WithdrawOneQuoted
    /\ last.q.token_amount > 0
    /\ last.q.withdraw_fee > 0
    /\ last.q.admin_fee > 0

C17_WitnessFeeAboveDy == WithdrawFeeAboveDy

\* the coefficient a quote at the present time computes with
EffectiveAmp == compute_amp_factor(InvariantOf(swap_info, now))

\* C25: in every state reached from a successful initialize by swap, deposit,
\* withdraw and withdraw_one instructions, with the clock moving on between
\* them, the effective amplification coefficient lies in [MIN_AMP, MAX_AMP]
\* and stop_ramp_ts >= start_ramp_ts.
C25_EffectiveAmpInRange ==
    swap_info.is_initialized
    => /\ EffectiveAmp # None
       /\ MIN_AMP <= EffectiveAmp
       /\ EffectiveAmp <= MAX_AMP
       /\ swap_info.stop_ramp_ts >= swap_info.start_ramp_ts

C25_Witness ==
    /\ last.op \in Handlers
    /\ last.q.ok
    /\ last.count = MaxIx
    /\ now > 0
    /\ swap_info.is_initialized
    /\ EffectiveAmp = MAX_AMP

\* an instruction whose amount is zero: for deposit, both amounts
ZeroAmount ==
    CASE last.op = "swap" -> last.args.amount_in = 0
      [] last.op = "deposit" ->
            last.args.token_a_amount = 0 /\ last.args.token_b_amount = 0
      [] last.op \in {"withdraw", "withdraw_one"} -> last.args.pool_token_amount = 0
      [] OTHER -> FALSE

\* a deposit of one token only
OneSidedDeposit ==
    /\ last.op = "deposit"
    /\ (last.args.token_a_amount = 0) # (last.args.token_b_amount = 0)

\* C26: a swap of 0, a deposit of 0 and 0, a withdraw of 0 and a
\* withdraw_one of 0 succeed and change nothing, whether or not the pool is
\* initialized or paused and whatever accounts are passed; a deposit with
\* exactly one amount zero is processed as any other deposit.
C26_ZeroAmountIsNoop ==
    /\ ZeroAmount => (last.result = "Ok" /\ ~last.q.ok /\ Untouched)
    /\ OneSidedDeposit
       => /\ ~last.pre.swap_info.is_initialized
             => last.result = "UninitializedAccount"
          /\ (last.pre.swap_info.is_initialized /\ last.pre.swap_info.is_paused)
             => last.result = "IsPaused"
          /\ last.result = "Ok"
             => /\ last.q.ok
                /\ last.q.mint_amount =
                       compute_mint_amount_for_deposit(
                           InvariantOf(last.pre.swap_info, now),
                           last.args.token_a_amount, last.args.token_b_amount,
                           last.pre.bal["resA"], last.pre.bal["resB"],
                           last.pre.supply, last.pre.swap_info.fees)
                /\ bal["resA"] = last.pre.bal["resA"] + last.args.token_a_amount
                /\ bal["resB"] = last.pre.bal["resB"] + last.args.token_b_amount
                /\ supply = last.pre.supply + last.q.mint_amount

\* a swap of 0 between an account and itself, on a paused pool
C26_Witness ==
    /\ ZeroAmount
    /\ SameAccountTwice
    /\ last.pre.swap_info.is_paused
    /\ last.result = "Ok"

C26_WitnessUninitialized ==
    /\ ZeroAmount
    /\ last.op = "withdraw"
    /\ ~last.pre.swap_info.is_initialized
    /\ last.result = "Ok"

C26_WitnessOneSided ==
    /\ OneSidedDeposit
    /\ last.result = "Ok"
    /\ last.q.mint_amount > 0

----------------------------------------------------------------------------
(* Properties of the curve functions *)

MintComputed == pure.op = "compute_mint_amount_for_deposit" /\ pure.res # None

\* amountAIn / reserveA = amountBIn / reserveB
ProportionalDeposit ==
    pure.deposit[1] * pure.amount_b = pure.deposit[2] * pure.amount_a

\* what the deposit's fee takes from the new balance of a token
ImbalanceFee(old_balance, deposit_amount) ==
    (old_balance + deposit_amount)
    - fee_adjusted_balance(
          compute_d(CurveInvariant, pure.amount_a, pure.amount_b),
          compute_d(CurveInvariant, pure.amount_a + pure.deposit[1],
                    pure.amount_b + pure.deposit[2]),
          old_balance, old_balance + deposit_amount, pure.fees)

\* C15 (as claimed): a deposit in the proportion of the reserves pays no
\* imbalance fee on either token and mints exactly
\* lpSupply * amountAIn / reserveA = lpSupply * amountBIn / reserveB.
C15_ProportionalDepositMintsProRata ==
    (MintComputed /\ ProportionalDeposit)
    => /\ ImbalanceFee(pure.amount_a, pure.deposit[1]) = 0
       /\ ImbalanceFee(pure.amount_b, pure.deposit[2]) = 0
       /\ pure.res = (pure.pool_token_supply * pure.deposit[1]) \div pure.amount_a
       /\ pure.res = (pure.pool_token_supply * pure.deposit[2]) \div pure.amount_b

\* every ratio of the schedule is in [0, 1]
FeeRatiosAtMostOne ==
    /\ pure.fees.trade_fee_numerator <= pure.fees.trade_fee_denominator
    /\ pure.fees.admin_trade_fee_numerator <= pure.fees.admin_trade_fee_denominator
    /\ pure.fees.withdraw_fee_numerator <= pure.fees.withdraw_fee_denominator
    /\ pure.fees.admin_withdraw_fee_numerator <= pure.fees.admin_withdraw_fee_denominator

\* C18 (as claimed): swapping amountIn of A for B and then the resulting
\* amountSwapped of B back for A, against the reserves the first swap leaves,
\* yields at most amountIn, for fee ratios in [0, 1].
C18_RoundTripNeverGains ==
    (pure.op = "swap_back" /\ pure.back.ok /\ FeeRatiosAtMostOne)
    => pure.back.amount_swapped <= pure.amount

\* the two-asset stable-swap polynomial whose positive root in d is the exact
\* invariant: d^3 + 4xy (ann - 1) d - 4xy ann (x + y), ann = amp * N_COINS;
\* it is increasing in d for d >= 0
StableSwapPolynomial(d, x, y, amp) ==
    d * d * d
    + 4 * x * y * (amp * N_COINS - 1) * d
    - 4 * x * y * (amp * N_COINS) * (x + y)

\* C19 (as claimed): for reserves A, B > 0 and an amplification in
\* [MIN_AMP, MAX_AMP], computeInvariant(A, B, amp) is within 1 unit of the
\* exact solution of the stable-swap equation.
C19_InvariantWithinOneOfExact ==
    (pure.op = "compute_d" /\ pure.res # None)
    => /\ StableSwapPolynomial(pure.res - 1, pure.amount_a, pure.amount_b,
                               pure.amp_factor) <= 0
       /\ StableSwapPolynomial(pure.res + 1, pure.amount_a, pure.amount_b,
                               pure.amp_factor) >= 0

\* C20 (as claimed): on fixed reserves and amplification the pre-fee output
\* is strictly increasing in amountIn (of two successful quotes the one for
\* the larger amountIn has the larger rawAmountOut), and the destination
\* reserve y left by a quote is strictly above zero.
C20_OutputStrictlyIncreasing ==
    /\ (pure.op = "swap_to" /\ pure.prev.q.ok /\ pure.res.ok)
       => pure.prev.q.raw_amount_out < pure.res.raw_amount_out
    /\ (pure.op = "swap_to" /\ pure.res.ok)
       => pure.amount_b - pure.res.raw_amount_out > 0

----------------------------------------------------------------------------
(* Properties of the amplification ramp *)

RampComputed == pure.op = "compute_amp_factor"

\* the ramp is over, not configured, or not begun
OutsideRamp ==
    \/ pure.inv.current_ts >= pure.inv.stop_ramp_ts
    \/ pure.inv.start_ramp_ts = pure.inv.stop_ramp_ts
    \/ pure.inv.current_ts < pure.inv.start_ramp_ts

\* C21: at or after rampStop, with rampStart = rampStop (as initialize
\* writes them, both ZERO_TS) and before rampStart, the effective coefficient
\* is the target coefficient exactly, and the computation does not fail.
C21_TargetOutsideRamp ==
    (RampComputed /\ OutsideRamp)
    => (pure.res # None /\ pure.res = pure.inv.target_amp_factor)

C21_Witness ==
    /\ RampComputed
    /\ pure.inv.current_ts < pure.inv.start_ramp_ts
    /\ pure.inv.start_ramp_ts < pure.inv.stop_ramp_ts
    /\ pure.inv.initial_amp_factor # pure.inv.target_amp_factor
    /\ pure.res = pure.inv.target_amp_factor

C21_WitnessAfterStop ==
    /\ RampComputed
    /\ pure.inv.start_ramp_ts < pure.inv.stop_ramp_ts
    /\ pure.inv.current_ts >= pure.inv.stop_ramp_ts
    /\ pure.inv.initial_amp_factor # pure.inv.target_amp_factor

C21_WitnessNoRamp ==
    /\ RampComputed
    /\ pure.inv.start_ramp_ts = ZERO_TS
    /\ pure.inv.stop_ramp_ts = ZERO_TS
    /\ pure.inv.initial_amp_factor # pure.inv.target_amp_factor

\* now is the exact midpoint of a ramp that has a length
AtMidpoint ==
    /\ pure.inv.start_ramp_ts < pure.inv.stop_ramp_ts
    /\ 2 * pure.inv.current_ts = pure.inv.start_ramp_ts + pure.inv.stop_ramp_ts

\* C22: at the exact midpoint of a ramp with rampStart < rampStop, increasing
\* or decreasing, the effective coefficient differs from
\* (initial + target) / 2 by at most 1 (compared after doubling both sides).
C22_MidpointWithinOne ==
    (RampComputed /\ AtMidpoint)
    => /\ pure.res # None
       /\ Abs(2 * pure.res
              - (pure.inv.initial_amp_factor + pure.inv.target_amp_factor)) <= 2

C22_Witness ==
    /\ RampComputed
    /\ AtMidpoint
    /\ pure.inv.initial_amp_factor >= pure.inv.target_amp_factor + 3
    /\ pure.res < pure.inv.initial_amp_factor
    /\ pure.res > pure.inv.target_amp_factor

C22_WitnessIncreasing ==
    /\ RampComputed
    /\ AtMidpoint
    /\ pure.inv.target_amp_factor >= pure.inv.initial_amp_factor + 3
    /\ pure.res > pure.inv.initial_amp_factor
    /\ pure.res < pure.inv.target_amp_factor

----------------------------------------------------------------------------
(* Properties of the Newton iterations *)

NewtonDone == pure.phase = "done"

\* how the loop that produced the iterate in pure.cur ended
LoopEnd ==
    IF pure.phase = "d_done" \/ pure.op = "compute_d" \/ pure.d_end = "failed"
    THEN pure.d_end ELSE pure.y_end

LoopOver == pure.phase \in {"d_done", "done"}

\* the divisor of the Newton step of compute_d at the iterate d
NextDDenominator(d) ==
    d * (pure.amp_factor * N_COINS - 1)
    + ((((d * d) \div (pure.amount_a * N_COINS)) * d)
           \div (pure.amount_b * N_COINS)) * (N_COINS + 1)

\* compute_d has a zero divisor, or its sum of reserves overflows
DOverflowOrZeroDivisor ==
    \/ pure.amount_a = 0
    \/ pure.amount_b = 0
    \/ pure.amount_a + pure.amount_b > U64_MAX
    \/ NextDDenominator(pure.cur) = 0

\* compute_y has a divisor that is zero or underflows, or its new source
\* reserve or its result overflows
YOverflowOrZeroDivisor ==
    \/ pure.amount_a + pure.amount > U64_MAX
    \/ 2 * pure.cur + y_b(pure) - pure.d <= 0
    \/ pure.cur > U64_MAX

NewtonStepsBounded ==
    /\ pure.steps <= ITERATIONS
    /\ (pure.phase \in {"d", "y"} /\ pure.steps > 0)
       => Abs(pure.cur - pure.prev) > 1
    /\ (LoopOver /\ LoopEnd = "converged")
       => (pure.res # None /\ pure.res = pure.cur
           /\ Abs(pure.cur - pure.prev) <= 1)
    /\ (LoopOver /\ LoopEnd = "exhausted")
       => (pure.steps = ITERATIONS /\ pure.res # None /\ pure.res = pure.cur)
    /\ (LoopOver /\ LoopEnd = "failed")
       => /\ pure.res = None
          /\ IF pure.d_end = "failed" THEN DOverflowOrZeroDivisor
             ELSE YOverflowOrZeroDivisor

\* the value returned is the value of compute_d, and of the compute_y of
\* swap_to
NewtonAgrees ==
    (NewtonDone /\ pure.d_end # "exhausted" /\ pure.y_end # "exhausted")
    => pure.res =
         IF pure.op = "compute_d"
         THEN compute_d(StableSwap(pure.amp_factor, pure.amp_factor, ZERO_TS,
                                   ZERO_TS, ZERO_TS),
                        pure.amount_a, pure.amount_b)
         ELSE IF pure.d_end = "failed"
                 \/ checked_add(pure.amount_a, pure.amount) = None THEN None
         ELSE compute_y(StableSwap(pure.amp_factor, pure.amp_factor, ZERO_TS,
                                   ZERO_TS, ZERO_TS),
                        pure.amount_a + pure.amount, pure.d)

\* C23: every call of computeInvariant and computeOutputForInput ends, after
\* at most ITERATIONS Newton steps in each loop; a loop stops as soon as two
\* successive iterates differ by at most 1; at the cap it returns the last
\* iterate, as a result; there is no result only on overflow or a zero
\* divisor.
C23_NewtonTerminatesWithinCap ==
    /\ [](NewtonStepsBounded /\ NewtonAgrees)
    /\ <>NewtonDone

\* the cap is reached, and the last iterate returned
C23_Witness ==
    /\ NewtonDone
    /\ LoopEnd = "exhausted"
    /\ pure.steps = ITERATIONS
    /\ pure.res = pure.cur

C23_WitnessConverged ==
    /\ NewtonDone
    /\ pure.op = "swap_to"
    /\ pure.y_end = "converged"
    /\ pure.steps > 2

C23_WitnessFailed ==
    /\ NewtonDone
    /\ pure.d_end = "failed"
    /\ pure.res = None

C23_WitnessFailedY ==
    /\ NewtonDone
    /\ pure.d_end # "failed"
    /\ pure.y_end = "failed"
    /\ pure.res = None

----------------------------------------------------------------------------
(* Properties of the single-asset withdrawal *)

\* the whole LP supply is withdrawn into the base token
WithdrawsWholeSupply ==
    /\ pure.op = "compute_withdraw_one"
    /\ pure.res.ok
    /\ pure.amount = pure.pool_token_supply
    /\ pure.amount_b > 0

\* C24 (as claimed): a single-asset withdrawal of the whole LP supply, with a
\* nonzero quote reserve, yields a base amount strictly less than the whole
\* base reserve.
C24_WholeSupplyLeavesBaseReserve ==
    WithdrawsWholeSupply => pure.res.dy < pure.amount_a

----------------------------------------------------------------------------
(* Properties of the withdrawals on an empty pool *)

\* a withdrawal of no pool tokens, or from a pool whose mint has no supply
ZeroShares ==
    /\ last.op \in {"withdraw", "withdraw_one"}
    /\ last.args.pool_token_amount = 0 \/ last.pre.supply = 0

\* the handler went as far as the quote: it has one, or it failed computing it
QuoteReached == last.q.ok \/ last.result = "CalculationFailure"

\* C27: a withdraw or withdraw_one of zero pool tokens, or on a pool mint
\* with zero supply, is rejected before the quote is computed, and no token
\* moves.
C27_ZeroSharesRejectedBeforeQuote ==
    ZeroShares => (~QuoteReached /\ Untouched)

----------------------------------------------------------------------------
(* Properties of the pause flag on withdrawals *)

\* the pool record with the pause flag cleared
Unpaused(si) == [si EXCEPT !.is_paused = FALSE]

\* what process_withdraw gives on the accounts before the instruction, had the
\* pool not been paused
WithdrawWhenUnpaused ==
    process_withdraw(Unpaused(last.pre.swap_info), last.pre.bal, last.pre.supply,
                     last.args.pool_token_amount,
                     last.args.minimum_token_a_amount,
                     last.args.minimum_token_b_amount, last.args.source)

\* C28: a proportional withdraw on a paused pool has the result, the quote
\* and the transfers it has on the same accounts of an unpaused pool, and
\* leaves the pool paused; a nonzero swap, deposit or withdraw_one on a paused
\* pool does not succeed and reaches no quote.
C28_WithdrawIgnoresPause ==
    /\ (last.op = "withdraw" /\ last.pre.swap_info.is_paused)
       => /\ last.result = WithdrawWhenUnpaused.result
          /\ last.q = WithdrawWhenUnpaused.q
          /\ bal = WithdrawWhenUnpaused.bal
          /\ supply = WithdrawWhenUnpaused.supply
          /\ swap_info = last.pre.swap_info
    /\ (/\ last.op \in {"swap", "deposit", "withdraw_one"}
        /\ last.pre.swap_info.is_paused
        /\ NonzeroAmount)
       => /\ last.result # "Ok"
          /\ ~last.q.ok

\* a withdraw on a paused pool that pays out both tokens
C28_Witness ==
    /\ last.op = "withdraw"
    /\ last.pre.swap_info.is_paused
    /\ last.result = "Ok"
    /\ bal["userA"] > last.pre.bal["userA"]
    /\ bal["userB"] > last.pre.bal["userB"]
    /\ supply < last.pre.supply

C28_WitnessUser ==
    /\ C28_Witness
    /\ last.args.source = "userLP"

----------------------------------------------------------------------------
(* Conservation of the two tokens *)

\* all the tokens of one mint, named by its reserve account: the reserve, the
\* admin-fee account and the user's account
TokenTotal(b, reserve) == b[reserve] + b[AdminFeesOf(reserve)] + b[UserOf(reserve)]

SucceededHandler == last.op \in Handlers /\ last.result = "Ok"

\* C29: a successful swap, deposit, withdraw or withdraw_one leaves the
\* total of token A and the total of token B over reserve, admin-fee account
\* and user account as they were; the LP supply grows by mint_amount on a
\* deposit, falls by pool_token_amount on a withdraw or withdraw_one, and
\* is unchanged by a swap.
C29_TokensConserved ==
    SucceededHandler
    => /\ \A reserve \in Reserves :
             TokenTotal(bal, reserve) = TokenTotal(last.pre.bal, reserve)
       /\ supply = CASE last.op = "swap" -> last.pre.supply
                     [] last.op = "deposit" ->
                           IF last.q.ok THEN last.pre.supply + last.q.mint_amount
                           ELSE last.pre.supply
                     [] OTHER -> last.pre.supply - last.args.pool_token_amount

\* a swap that moved tokens into one reserve, out of the other and into the
\* admin-fee account
C29_Witness ==
    /\ SucceededHandler
    /\ last.op = "swap"
    /\ bal[last.args.swap_source] > last.pre.bal[last.args.swap_source]
    /\ bal[last.args.swap_destination] < last.pre.bal[last.args.swap_destination]
    /\ bal[last.args.admin_destination] > last.pre.bal[last.args.admin_destination]

C29_WitnessDeposit ==
    /\ SucceededHandler
    /\ last.op = "deposit"
    /\ bal["resA"] > last.pre.bal["resA"]
    /\ supply > last.pre.supply

C29_WitnessWithdraw ==
    /\ SucceededHandler
    /\ last.op = "withdraw"
    /\ bal["adminA"] > last.pre.bal["adminA"]
    /\ bal["userB"] > last.pre.bal["userB"]
    /\ supply < last.pre.supply

C29_WitnessWithdrawOne ==
    /\ SucceededHandler
    /\ last.op = "withdraw_one"
    /\ bal[last.args.admin_destination] > last.pre.bal[last.args.admin_destination]
    /\ bal[UserOf(last.args.base_token)] > last.pre.bal[UserOf(last.args.base_token)]
    /\ supply < last.pre.supply

----------------------------------------------------------------------------
(* Properties of an unvalidated fee schedule *)

\* a schedule of four ratios in 0..1
SoundFees == Fees(1, 2, 1, 2, 2, 4, 1, 4)

ZeroDenominator(f) ==
    0 \in {f.admin_trade_fee_denominator, f.admin_withdraw_fee_denominator,
           f.trade_fee_denominator, f.withdraw_fee_denominator}

RatioAboveOne(f) ==
    \/ f.admin_trade_fee_numerator > f.admin_trade_fee_denominator
    \/ f.admin_withdraw_fee_numerator > f.admin_withdraw_fee_denominator
    \/ f.trade_fee_numerator > f.trade_fee_denominator
    \/ f.withdraw_fee_numerator > f.withdraw_fee_denominator

\* what process_initialize gives on the accounts before the instruction with
\* the same amp_factor and a sound schedule
InitializeWithSoundFees ==
    process_initialize(last.pre.swap_info, last.pre.bal, last.pre.supply,
                       last.args.amp_factor, SoundFees)

\* a nonzero swap on a pool whose trade fee has a zero denominator, that
\* passed the checks made before the quote
SwapHitsZeroDenominator ==
    /\ last.op = "swap"
    /\ last.args.amount_in # 0
    /\ last.pre.swap_info.is_initialized
    /\ last.pre.swap_info.fees.trade_fee_denominator = 0
    /\ last.result \notin {"InvalidInput", "IsPaused", "IncorrectSwapAccount",
                           "InvalidAdmin"}

\* C30: initialize has the result it has with a sound schedule whatever the
\* fee schedule it is given, zero denominators and ratios above one included,
\* and when it succeeds stores the schedule as given; on a pool initialized
\* with a zero trade-fee denominator every nonzero swap that reaches the fee
\* computation fails with CalculationFailure and moves no tokens.
C30_FeesStoredUnvalidated ==
    /\ last.op = "initialize"
       => /\ last.result = InitializeWithSoundFees.result
          /\ bal = InitializeWithSoundFees.bal
          /\ supply = InitializeWithSoundFees.supply
          /\ last.result = "Ok" => swap_info.fees = last.args.fees
    /\ SwapHitsZeroDenominator
       => /\ last.result = "CalculationFailure"
          /\ ~last.q.ok
          /\ Untouched

\* a swap of 5 that fails on the zero denominator stored by initialize
C30_Witness ==
    /\ SwapHitsZeroDenominator
    /\ last.result = "CalculationFailure"
    /\ last.args.amount_in = 5
    /\ bal[UserOf(last.args.swap_source)] >= 5

C30_WitnessZeroDenominator ==
    /\ InitializeOk
    /\ ZeroDenominator(last.args.fees)
    /\ swap_info.fees = last.args.fees

C30_WitnessRatioAboveOne ==
    /\ InitializeOk
    /\ RatioAboveOne(last.args.fees)
    /\ ~ZeroDenominator(last.args.fees)
    /\ swap_info.fees = last.args.fees

====
